---- MODULE Spec2Model ----
(***************************************************************************)
(* Order orchestrator (Grupo-MACC/Order): the order record, the            *)
(* confirmation saga, the cancellation saga, their registries and the      *)
(* bus handlers, as one state machine.  Every coroutine is a task in a     *)
(* slot; one step of a task runs from one suspension point (an awaited     *)
(* database call or publish) to the next, so tasks interleave exactly at   *)
(* the awaits of the source.                                               *)
(***************************************************************************)
EXTENDS Integers, Sequences, FiniteSets

\* ------------------------------------------------------------------ bounds
MaxOrders == 1
MaxSagas == 1
MaxTasks == 2
MaxEvents == 4
MaxFailures == 1
MaxSteps == 4
MaxPieces == 1

Orders == 1..MaxOrders
SagaIds == 1..MaxSagas
Slots == 1..MaxTasks

\* ------------------------------------------------ models.Order constants
CreationStatuses == {"Pending", "Paid", "Confirmed", "NoMoney", "NotDeliverable", "Returned"}
FabricationStatuses == {"NotStarted", "Requested", "InProgress", "Completed", "Failed",
                        "Canceling", "Canceled", "CancelPendingRefund"}
DeliveryStatuses == {"NotStarted", "Ready", "Delivered", "Failed"}

\* order_cancel_saga.py: FINAL_STATES
FINAL_STATES == {"Canceled", "CancelPendingRefund"}
CancelStates == {"Canceling", "Refunding", "Canceled", "CancelPendingRefund"}
\* terminal states of the confirmation saga
CONFIRM_FINAL_STATES == {"Confirmed", "NoMoney", "Returned"}

\* ------------------------------------------------------- pure functions

\* str.strip() on the event types the model draws
Strip(s) ==
    CASE s = " payment_accepted " -> "payment_accepted"
      [] s = "money_returned " -> "money_returned"
      [] OTHER -> s

\* a slip in Confirmed.on_event: money_returned accepted in Confirmed
ConfirmOnEvent_mut(state, type) ==
    LET evt == Strip(type) IN
    CASE state = "Pending" ->
            IF evt = "payment_accepted" THEN "Paid"
            ELSE IF evt = "payment_rejected" THEN "NoMoney"
            ELSE "Pending"
      [] state = "Paid" ->
            IF evt = "delivery_possible" THEN "Confirmed"
            ELSE IF evt = "delivery_not_possible" THEN "NotDeliverable"
            ELSE "Paid"
      [] state = "Confirmed" ->
            IF evt = "money_returned" THEN "Returned" ELSE "Confirmed"
      [] state = "NoMoney" -> "NoMoney"
      [] state = "NotDeliverable" ->
            IF evt = "money_returned" THEN "Returned" ELSE "NotDeliverable"
      [] state = "Returned" -> "Returned"

\* order_confirm_states.py: <State>.on_event, by class name of the current state
ConfirmOnEvent(state, type) ==
    LET evt == Strip(type) IN
    CASE state = "Pending" ->
            IF evt = "order_created" THEN "Pending"
            ELSE IF evt = "payment_accepted" THEN "Paid"
            ELSE IF evt = "payment_rejected" THEN "NoMoney"
            ELSE "Pending"
      [] state = "Paid" ->
            IF evt = "paid" THEN "Paid"
            ELSE IF evt = "delivery_possible" THEN "Confirmed"
            ELSE IF evt = "delivery_not_possible" THEN "NotDeliverable"
            ELSE "Paid"
      [] state = "Confirmed" -> "Confirmed"
      [] state = "NoMoney" -> "NoMoney"
      [] state = "NotDeliverable" ->
            IF evt = "notdeliverable" THEN "NotDeliverable"
            ELSE IF evt = "money_returned" THEN "Returned"
            ELSE "NotDeliverable"
      [] state = "Returned" -> "Returned"

\* a slip in Refunding.on_event / Canceling.on_event: refunded accepted in Canceling
CancelOnEvent_mut(state, type) ==
    CASE state = "Canceling" ->
            IF type = "fabrication_canceled" THEN "Refunding"
            ELSE IF type = "refunded" THEN "Canceled"
            ELSE "Canceling"
      [] state = "Refunding" ->
            IF type = "refunded" THEN "Canceled"
            ELSE IF type = "refund_failed" THEN "CancelPendingRefund"
            ELSE "Refunding"
      [] state = "Canceled" -> "Canceled"
      [] state = "CancelPendingRefund" -> "CancelPendingRefund"

\* order_cancel_states.py: <State>.on_event, by class name of the current state
CancelOnEvent(state, type) ==
    CASE state = "Canceling" ->
            IF type = "fabrication_canceled" THEN "Refunding" ELSE "Canceling"
      [] state = "Refunding" ->
            IF type = "refunded" THEN "Canceled"
            ELSE IF type = "refund_failed" THEN "CancelPendingRefund"
            ELSE "Refunding"
      [] state = "Canceled" -> "Canceled"
      [] state = "CancelPendingRefund" -> "CancelPendingRefund"


\* ---------------------------------------------------------------- state
VARIABLES
    orders,               \* table fabrication_order: id -> row
    cancel_saga,          \* table cancel_saga: saga_id -> row
    active_sagas,         \* SagaManager.active_sagas (keys: order ids)
    saga_obj,             \* the OrderSaga instance created for each order
    cancel_active_sagas,  \* CancelSagaManager.active_sagas (keys: saga ids)
    cancel_obj,           \* the CancelSaga instance created for each saga_id
    tasks,                \* the coroutines in flight, one per slot
    published,            \* number of messages published, per routing key and id
    record_writes,        \* history: successive values of cancel_saga.state
    creation_writes,      \* history: successive values of creation_status
    delivered,            \* number of requests and bus messages handled so far
    failures,             \* number of database / bus errors raised so far
    response,             \* HTTP status of the last request
    fn,                   \* the two state machines driven alone (SpecFn)
    dropped,              \* number of saga events dropped for lack of a registered saga
    raised,               \* number of message handlers that ended by raising
    logs_lost             \* number of audit records that could not be published

vars == <<orders, cancel_saga, active_sagas, saga_obj, cancel_active_sagas, cancel_obj,
          tasks, published, record_writes, creation_writes, delivered, failures,
          response, fn, dropped,
                   raised, logs_lost>>

Ids == Orders \cup SagaIds

RoutingKeys == {"pay", "check.delivery", "return.money", "order.created",
                "order.fabricated", "cmd.cancel_fabrication", "cmd.refund"}

NoOrder == [exists |-> FALSE, creation_status |-> "None", fabrication_status |-> "None",
            delivery_status |-> "None", status |-> "None",
            pieces_a |-> 0, pieces_b |-> 0, number_of_pieces |-> 0]

NoCancelSaga == [exists |-> FALSE, order_id |-> 0, state |-> "None", error |-> "None"]

NoSaga == [created |-> FALSE, order_id |-> 0, state |-> "None", last_error |-> "None"]

IdleTask == [kind |-> "idle", key |-> 0, entering |-> "None", step |-> 0,
             old_name |-> "None", new_status |-> "None",
             prev_fab_status |-> "None", prev_delivery_status |-> "None"]

NewTask(kind, key, entering, step, old_name) ==
    [IdleTask EXCEPT !.kind = kind, !.key = key, !.entering = entering,
                     !.step = step, !.old_name = old_name]

FnInit == [n |-> 0, machine |-> "none", from |-> "None", evt |-> "None",
           confirm |-> "Pending", confirm_hist |-> <<"Pending">>,
           cancel |-> "Canceling", cancel_hist |-> <<"Canceling">>,
           raw |-> "None", out |-> "None", order |-> NoOrder, overall |-> "None",
           call |-> "None", id |-> 0, arg |-> "None", ret |-> "None",
           before |-> << >>, tbl |-> << >>]

Init ==
    /\ orders = [o \in Orders |-> NoOrder]
    /\ cancel_saga = [s \in SagaIds |-> NoCancelSaga]
    /\ active_sagas = {}
    /\ saga_obj = [o \in Orders |-> NoSaga]
    /\ cancel_active_sagas = {}
    /\ cancel_obj = [s \in SagaIds |-> NoSaga]
    /\ tasks = [i \in Slots |-> IdleTask]
    /\ published = [rk \in RoutingKeys |-> [k \in Ids |-> 0]]
    /\ record_writes = [s \in SagaIds |-> << >>]
    /\ creation_writes = [o \in Orders |-> << >>]
    /\ delivered = 0
    /\ failures = 0
    /\ response = 0
    /\ fn = FnInit
    /\ dropped = 0
    /\ raised = 0
    /\ logs_lost = 0

FreeSlots == {i \in Slots : tasks[i].kind = "idle"}
LowestFree == CHOOSE i \in FreeSlots : \A j \in FreeSlots : i <= j

\* append v to a history unless it repeats the last value
Log(h, v) == IF Len(h) > 0 /\ h[Len(h)] = v THEN h ELSE Append(h, v)

\* ------------------------------------------------------------ sql/crud.py

\* update_order_creation_status that only sets the legacy status column
update_order_creation_status_mut(tbl, order_id, status) ==
    IF tbl[order_id].exists
    THEN [tbl EXCEPT ![order_id].status = status]
    ELSE tbl

\* crud.update_order_creation_status
update_order_creation_status(tbl, order_id, status) ==
    IF tbl[order_id].exists
    THEN [tbl EXCEPT ![order_id].creation_status = status, ![order_id].status = status]
    ELSE tbl

\* crud.update_order_fabrication_status
update_order_fabrication_status(tbl, order_id, status) ==
    IF tbl[order_id].exists
    THEN [tbl EXCEPT ![order_id].fabrication_status = status, ![order_id].status = status]
    ELSE tbl

\* crud.update_order_delivery_status
update_order_delivery_status(tbl, order_id, status) ==
    IF tbl[order_id].exists
    THEN [tbl EXCEPT ![order_id].delivery_status = status, ![order_id].status = status]
    ELSE tbl

\* crud.create_cancel_saga
create_cancel_saga(tbl, saga_id, order_id, state) ==
    [tbl EXCEPT ![saga_id] = [exists |-> TRUE, order_id |-> order_id,
                              state |-> state, error |-> "None"]]

\* crud.update_cancel_saga
update_cancel_saga(tbl, saga_id, state, error) ==
    IF tbl[saga_id].exists
    THEN [tbl EXCEPT ![saga_id].state = state,
                     ![saga_id].error = IF error # "None" THEN error ELSE @]
    ELSE tbl

\* exchange.publish(msg, routing_key): one more message under that key
publish(pub, rk, key) == [pub EXCEPT ![rk][key] = @ + 1]

\* ------------------------------------------------------ cancellation saga

\* on_enter effects in which Refunding publishes cmd.refund before it persists
CancelEnterOps_publish_first(state) ==
    CASE state = "Canceling" ->
            << [op |-> "update_order_fabrication_status", arg |-> "Canceling"],
               [op |-> "update_cancel_saga", arg |-> "Canceling"],
               [op |-> "publish", arg |-> "cmd.cancel_fabrication"] >>
      [] state = "Refunding" ->
            << [op |-> "publish", arg |-> "cmd.refund"],
               [op |-> "update_cancel_saga", arg |-> "Refunding"] >>
      [] state = "Canceled" ->
            << [op |-> "update_order_fabrication_status", arg |-> "Canceled"],
               [op |-> "update_cancel_saga", arg |-> "Canceled"] >>
      [] state = "CancelPendingRefund" ->
            << [op |-> "update_order_fabrication_status", arg |-> "CancelPendingRefund"],
               [op |-> "update_cancel_saga", arg |-> "CancelPendingRefund"] >>

\* on_enter effects in which CancelPendingRefund marks the order Canceled and
\* records the state without the error
CancelEnterOps_mut(state) ==
    CASE state = "Canceling" ->
            << [op |-> "update_order_fabrication_status", arg |-> "Canceling"],
               [op |-> "update_cancel_saga", arg |-> "Canceling"],
               [op |-> "publish", arg |-> "cmd.cancel_fabrication"] >>
      [] state = "Refunding" ->
            << [op |-> "update_cancel_saga", arg |-> "Refunding"],
               [op |-> "publish", arg |-> "cmd.refund"] >>
      [] state = "Canceled" ->
            << [op |-> "update_order_fabrication_status", arg |-> "Canceled"],
               [op |-> "update_cancel_saga", arg |-> "Canceled"] >>
      [] state = "CancelPendingRefund" ->
            << [op |-> "update_order_fabrication_status", arg |-> "Canceled"],
               [op |-> "update_cancel_saga", arg |-> "Refunding"] >>

\* order_cancel_states.py: the awaited calls of <State>.on_enter, in order
CancelEnterOps(state) ==
    CASE state = "Canceling" ->
            << [op |-> "update_order_fabrication_status", arg |-> "Canceling"],
               [op |-> "update_cancel_saga", arg |-> "Canceling"],
               [op |-> "publish", arg |-> "cmd.cancel_fabrication"] >>
      [] state = "Refunding" ->
            << [op |-> "update_cancel_saga", arg |-> "Refunding"],
               [op |-> "publish", arg |-> "cmd.refund"] >>
      [] state = "Canceled" ->
            << [op |-> "update_order_fabrication_status", arg |-> "Canceled"],
               [op |-> "update_cancel_saga", arg |-> "Canceled"] >>
      [] state = "CancelPendingRefund" ->
            << [op |-> "update_order_fabrication_status", arg |-> "CancelPendingRefund"],
               [op |-> "update_cancel_saga", arg |-> "CancelPendingRefund"] >>

\* the admission rule of POST /order/{id}/cancel, without the creation_status test
CanCancel_mut(row) ==
    /\ row.exists
    /\ row.fabrication_status \in {"Requested", "InProgress"}

\* the admission rule of POST /order/{id}/cancel
CanCancel(row) ==
    /\ row.exists
    /\ row.creation_status = "Confirmed"
    /\ row.fabrication_status \in {"Requested", "InProgress"}
    /\ row.fabrication_status \notin {"Canceling", "Canceled", "CancelPendingRefund"}

\* CancelSagaManager.start_saga: register a new CancelSaga and schedule run()
start_cancel_saga(order_id, saga_id) ==
    /\ cancel_obj' = [cancel_obj EXCEPT ![saga_id] =
                        [created |-> TRUE, order_id |-> order_id,
                         state |-> "Canceling", last_error |-> "None"]]
    /\ cancel_active_sagas' = cancel_active_sagas \cup {saga_id}
    /\ tasks' = [tasks EXCEPT ![LowestFree] =
                        NewTask("cancel_start", saga_id, "None", 0, "None")]

\* POST /order/{id}/cancel: 404, 409, or admit and start the saga
CancelRequest(o) ==
    /\ delivered < MaxEvents
    /\ delivered' = delivered + 1
    /\ IF ~orders[o].exists
       THEN /\ response' = 404
            /\ UNCHANGED <<orders, cancel_saga, cancel_active_sagas, cancel_obj, tasks,
                           record_writes>>
       ELSE IF ~CanCancel(orders[o])
       THEN /\ response' = 409
            /\ UNCHANGED <<orders, cancel_saga, cancel_active_sagas, cancel_obj, tasks,
                           record_writes>>
       ELSE \E sid \in SagaIds :
            /\ ~cancel_obj[sid].created
            /\ \A s \in SagaIds : ~cancel_obj[s].created => sid <= s
            /\ FreeSlots # {}
            /\ response' = 202
            /\ cancel_saga' = create_cancel_saga(cancel_saga, sid, o, "Canceling")
            /\ record_writes' = [record_writes EXCEPT ![sid] = Log(@, "Canceling")]
            /\ orders' = update_order_fabrication_status(orders, o, "Canceling")
            /\ start_cancel_saga(o, sid)
    /\ UNCHANGED <<active_sagas, saga_obj, published, creation_writes, failures, fn, dropped,
                   raised, logs_lost>>

\* CancelSaga.start, first step of run(): on_enter of the state the saga is in
CancelStartRun(i) ==
    /\ tasks[i].kind = "cancel_start"
    /\ tasks[i].step = 0
    /\ tasks' = [tasks EXCEPT ![i].entering = cancel_obj[tasks[i].key].state,
                              ![i].step = 1]
    /\ UNCHANGED <<orders, cancel_saga, active_sagas, saga_obj, cancel_active_sagas,
                   cancel_obj, published, record_writes, creation_writes, delivered,
                   failures, response, fn, dropped,
                   raised, logs_lost>>

\* one awaited call of <State>.on_enter of the cancellation saga completes;
\* after the last one on_event_saga calls on_finish for a final state
CancelEnterStep(i) ==
    LET t == tasks[i]
        sid == t.key
        ops == CancelEnterOps(t.entering)
        op == ops[t.step]
        oid == cancel_obj[sid].order_id
        last == t.step = Len(ops)
    IN
    /\ t.kind \in {"cancel_start", "cancel_evt"}
    /\ t.step >= 1
    /\ CASE op.op = "update_order_fabrication_status" ->
              /\ orders' = update_order_fabrication_status(orders, oid, op.arg)
              /\ UNCHANGED <<cancel_saga, record_writes, published>>
         [] op.op = "update_cancel_saga" ->
              /\ cancel_saga' = update_cancel_saga(cancel_saga, sid, op.arg,
                                    IF op.arg = "CancelPendingRefund"
                                    THEN cancel_obj[sid].last_error ELSE "None")
              /\ record_writes' = [record_writes EXCEPT ![sid] =
                                    IF cancel_saga[sid].exists THEN Log(@, op.arg) ELSE @]
              /\ UNCHANGED <<orders, published>>
         [] op.op = "publish" ->
              /\ published' = publish(published, op.arg, sid)
              /\ UNCHANGED <<orders, cancel_saga, record_writes>>
    /\ tasks' = [tasks EXCEPT ![i] = IF last THEN IdleTask ELSE [t EXCEPT !.step = @ + 1]]
    /\ cancel_active_sagas' =
          IF last /\ t.kind = "cancel_evt" /\ t.entering \in FINAL_STATES
          THEN cancel_active_sagas \ {sid}
          ELSE cancel_active_sagas
    /\ UNCHANGED <<active_sagas, saga_obj, cancel_obj, creation_writes, delivered,
                   failures, response, fn, dropped,
                   raised, logs_lost>>

\* the awaited call raises (database or bus error): the coroutine ends there
CancelEnterFail(i) ==
    /\ tasks[i].kind \in {"cancel_start", "cancel_evt"}
    /\ tasks[i].step >= 1
    /\ failures < MaxFailures
    /\ failures' = failures + 1
    /\ tasks' = [tasks EXCEPT ![i] = IdleTask]
    /\ UNCHANGED <<orders, cancel_saga, active_sagas, saga_obj, cancel_active_sagas,
                   cancel_obj, published, record_writes, creation_writes, delivered,
                   response, fn, dropped,
                   raised, logs_lost>>

\* CancelSaga.on_event_saga up to its first suspension point
CancelSaga_on_event_saga(sid, type, reason) ==
    LET cur == cancel_obj[sid].state
        new_state == CancelOnEvent(cur, type)
    IN
    IF new_state # cur
    THEN /\ FreeSlots # {}
         /\ cancel_obj' = [cancel_obj EXCEPT
                ![sid].state = new_state,
                ![sid].last_error = IF cur = "Refunding" /\ type = "refund_failed"
                                    THEN reason ELSE @]
         /\ tasks' = [tasks EXCEPT ![LowestFree] =
                        NewTask("cancel_evt", sid, new_state, 1, cur)]
    ELSE UNCHANGED <<cancel_obj, tasks>>

\* saga_broker_order_cancel._handle_evt_fabrication_canceled
HandleEvtFabricationCanceled(sid) ==
    /\ delivered < MaxEvents
    /\ delivered' = delivered + 1
    /\ dropped' = IF sid \notin cancel_active_sagas THEN dropped + 1 ELSE dropped
    /\ IF sid \in cancel_active_sagas
       THEN CancelSaga_on_event_saga(sid, "fabrication_canceled", "None")
       ELSE UNCHANGED <<cancel_obj, tasks>>
    /\ UNCHANGED <<orders, cancel_saga, active_sagas, saga_obj, cancel_active_sagas,
                   published, record_writes, creation_writes, failures, response, fn,
                   raised, logs_lost>>

\* the characters of a status string, str(raw)
Chars(raw) ==
    CASE
         raw = "completed" -> <<"c", "o", "m", "p", "l", "e", "t", "e", "d">>
      [] raw = "complete" -> <<"c", "o", "m", "p", "l", "e", "t", "e">>
      [] raw = "done" -> <<"d", "o", "n", "e">>
      [] raw = "finished" -> <<"f", "i", "n", "i", "s", "h", "e", "d">>
      [] raw = "fabricated" -> <<"f", "a", "b", "r", "i", "c", "a", "t", "e", "d">>
      [] raw = "in_progress" -> <<"i", "n", "_", "p", "r", "o", "g", "r", "e", "s", "s">>
      [] raw = "inprogress" -> <<"i", "n", "p", "r", "o", "g", "r", "e", "s", "s">>
      [] raw = "working" -> <<"w", "o", "r", "k", "i", "n", "g">>
      [] raw = "manufacturing" -> <<"m", "a", "n", "u", "f", "a", "c", "t", "u", "r", "i", "n", "g">>
      [] raw = "fabricating" -> <<"f", "a", "b", "r", "i", "c", "a", "t", "i", "n", "g">>
      [] raw = "running" -> <<"r", "u", "n", "n", "i", "n", "g">>
      [] raw = "requested" -> <<"r", "e", "q", "u", "e", "s", "t", "e", "d">>
      [] raw = "request" -> <<"r", "e", "q", "u", "e", "s", "t">>
      [] raw = "queued" -> <<"q", "u", "e", "u", "e", "d">>
      [] raw = "pending" -> <<"p", "e", "n", "d", "i", "n", "g">>
      [] raw = "created" -> <<"c", "r", "e", "a", "t", "e", "d">>
      [] raw = "failed" -> <<"f", "a", "i", "l", "e", "d">>
      [] raw = "error" -> <<"e", "r", "r", "o", "r">>
      [] raw = "ko" -> <<"k", "o">>
      [] raw = "rejected" -> <<"r", "e", "j", "e", "c", "t", "e", "d">>
      [] raw = "Requested" -> <<"R", "e", "q", "u", "e", "s", "t", "e", "d">>
      [] raw = "InProgress" -> <<"I", "n", "P", "r", "o", "g", "r", "e", "s", "s">>
      [] raw = "Completed" -> <<"C", "o", "m", "p", "l", "e", "t", "e", "d">>
      [] raw = "Failed" -> <<"F", "a", "i", "l", "e", "d">>
      [] raw = "NotStarted" -> <<"N", "o", "t", "S", "t", "a", "r", "t", "e", "d">>
      [] raw = "Canceling" -> <<"C", "a", "n", "c", "e", "l", "i", "n", "g">>
      [] raw = "Canceled" -> <<"C", "a", "n", "c", "e", "l", "e", "d">>
      [] raw = "CancelPendingRefund" -> <<"C", "a", "n", "c", "e", "l", "P", "e", "n", "d", "i", "n", "g", "R", "e", "f", "u", "n", "d">>
      [] raw = " DONE " -> <<" ", "D", "O", "N", "E", " ">>
      [] raw = "In-Progress" -> <<"I", "n", "-", "P", "r", "o", "g", "r", "e", "s", "s">>
      [] raw = "in progress" -> <<"i", "n", " ", "p", "r", "o", "g", "r", "e", "s", "s">>
      [] raw = "IN PROGRESS" -> <<"I", "N", " ", "P", "R", "O", "G", "R", "E", "S", "S">>
      [] raw = "Finished" -> <<"F", "i", "n", "i", "s", "h", "e", "d">>
      [] raw = "FABRICATED" -> <<"F", "A", "B", "R", "I", "C", "A", "T", "E", "D">>
      [] raw = "Complete" -> <<"C", "o", "m", "p", "l", "e", "t", "e">>
      [] raw = " failed" -> <<" ", "f", "a", "i", "l", "e", "d">>
      [] raw = "KO" -> <<"K", "O">>
      [] raw = "bogus" -> <<"b", "o", "g", "u", "s">>
      [] raw = "  " -> <<" ", " ">>
      [] raw = "com pleted" -> <<"c", "o", "m", " ", "p", "l", "e", "t", "e", "d">>
      [] raw = "not-completed" -> <<"n", "o", "t", "-", "c", "o", "m", "p", "l", "e", "t", "e", "d">>
      [] raw = "done_" -> <<"d", "o", "n", "e", "_">>
      [] raw = "\tdone\n" -> <<"\t", "d", "o", "n", "e", "\n">>
      [] raw = "Queued" -> <<"Q", "u", "e", "u", "e", "d">>
      [] raw = "ERROR" -> <<"E", "R", "R", "O", "R">>
      [] raw = "in-progress " -> <<"i", "n", "-", "p", "r", "o", "g", "r", "e", "s", "s", " ">>
      [] raw = "paid" -> <<"p", "a", "i", "d">>
      [] raw = "Paid" -> <<"P", "a", "i", "d">>
      [] raw = " NOT_PAID " -> <<" ", "N", "O", "T", "_", "P", "A", "I", "D", " ">>
      [] raw = "not_paid" -> <<"n", "o", "t", "_", "p", "a", "i", "d">>
      [] raw = "refused" -> <<"r", "e", "f", "u", "s", "e", "d">>
      [] raw = "refunded" -> <<"r", "e", "f", "u", "n", "d", "e", "d">>
      [] raw = " Refunded " -> <<" ", "R", "e", "f", "u", "n", "d", "e", "d", " ">>
      [] raw = "deliverable" -> <<"d", "e", "l", "i", "v", "e", "r", "a", "b", "l", "e">>
      [] raw = "not_deliverable" -> <<"n", "o", "t", "_", "d", "e", "l", "i", "v", "e", "r", "a", "b", "l", "e">>
      [] raw = " Deliverable " -> <<" ", "D", "e", "l", "i", "v", "e", "r", "a", "b", "l", "e", " ">>
      [] raw = "unknown" -> <<"u", "n", "k", "n", "o", "w", "n">>

\* the status strings whose characters are spelled out, as drawn by the model
NormInputs == {"None", "",
    "completed", "complete", "done", "finished", "fabricated", "in_progress",
    "inprogress", "working", "manufacturing", "fabricating", "running", "requested",
    "request", "queued", "pending", "created", "failed", "error",
    "ko", "rejected", "Requested", "InProgress", "Completed", "Failed",
    "NotStarted", "Canceling", "Canceled", "CancelPendingRefund", " DONE ", "In-Progress",
    "in progress", "IN PROGRESS", "Finished", "FABRICATED", "Complete", " failed",
    "KO", "bogus", "  ", "com pleted", "not-completed", "done_",
    "\tdone\n", "Queued", "ERROR", "in-progress "}

\* str.lower() on one character
LowerChar(c) ==
    CASE
         c = "A" -> "a"
      [] c = "B" -> "b"
      [] c = "C" -> "c"
      [] c = "D" -> "d"
      [] c = "E" -> "e"
      [] c = "F" -> "f"
      [] c = "G" -> "g"
      [] c = "H" -> "h"
      [] c = "I" -> "i"
      [] c = "J" -> "j"
      [] c = "K" -> "k"
      [] c = "L" -> "l"
      [] c = "M" -> "m"
      [] c = "N" -> "n"
      [] c = "O" -> "o"
      [] c = "P" -> "p"
      [] c = "Q" -> "q"
      [] c = "R" -> "r"
      [] c = "S" -> "s"
      [] c = "T" -> "t"
      [] c = "U" -> "u"
      [] c = "V" -> "v"
      [] c = "W" -> "w"
      [] c = "X" -> "x"
      [] c = "Y" -> "y"
      [] c = "Z" -> "z"
      [] OTHER -> c

\* str.lower()
Lower(v) == [k \in 1..Len(v) |-> LowerChar(v[k])]

Whitespace == {" ", "\t", "\n"}

RECURSIVE LStrip(_)
LStrip(v) == IF v # << >> /\ Head(v) \in Whitespace THEN LStrip(Tail(v)) ELSE v

RECURSIVE RStrip(_)
RStrip(v) ==
    IF v # << >> /\ v[Len(v)] \in Whitespace THEN RStrip(SubSeq(v, 1, Len(v) - 1)) ELSE v

\* str.strip()
StripChars(v) == RStrip(LStrip(v))

\* "".join(v)
RECURSIVE Join(_)
Join(v) == IF v = << >> THEN "" ELSE Head(v) \o Join(Tail(v))

\* (data.get("status") or "").strip(): the lower() is left out
StripLower_mut(s) == IF s = "None" THEN "" ELSE Join(StripChars(Chars(s)))

\* the status values the handlers receive in the model ("None": the key is missing)
StatusInputs == {"paid", "Paid", "not_paid", " NOT_PAID ", "refused",
                 "deliverable", " Deliverable ", "not_deliverable", "unknown",
                 "refunded", " Refunded ", "failed", "None"}

\* (data.get("status") or "").strip().lower()
strip_lower(s) == IF s = "None" THEN "" ELSE Join(Lower(StripChars(Chars(s))))

\* strip_lower on the status values, computed once
StripLowerOf == [s \in StatusInputs |-> strip_lower(s)]

StripLower(s) == StripLowerOf[s]

RefundStatuses == {"refunded", " Refunded ", "failed", "None"}
Reasons == {"gateway", "None"}

\* saga_broker_order_cancel._handle_refund_result
HandleRefundResult(sid, raw_status, raw_reason) ==
    LET status == StripLower(raw_status)
        reason == IF raw_reason = "None" THEN "unknown" ELSE raw_reason
    IN
    /\ delivered < MaxEvents
    /\ delivered' = delivered + 1
    /\ dropped' = IF sid \notin cancel_active_sagas THEN dropped + 1 ELSE dropped
    /\ IF sid \in cancel_active_sagas
       THEN IF status = "refunded"
            THEN CancelSaga_on_event_saga(sid, "refunded", "None")
            ELSE CancelSaga_on_event_saga(sid, "refund_failed", reason)
       ELSE UNCHANGED <<cancel_obj, tasks>>
    /\ UNCHANGED <<orders, cancel_saga, active_sagas, saga_obj, cancel_active_sagas,
                   published, record_writes, creation_writes, failures, response, fn,
                   raised, logs_lost>>


\* ------------------------------------------------------ confirmation saga

\* on_enter effects in which NoMoney asks for a delivery check and NotDeliverable
\* publishes return.money twice
ConfirmEnterOps_mut(state) ==
    CASE state = "Pending" -> << [op |-> "publish", arg |-> "pay"] >>
      [] state = "Paid" -> << [op |-> "publish", arg |-> "check.delivery"] >>
      [] state = "Confirmed" ->
            << [op |-> "update_order_fabrication_status", arg |-> "Requested"],
               [op |-> "publish", arg |-> "order.created"] >>
      [] state = "NoMoney" -> << [op |-> "publish", arg |-> "check.delivery"] >>
      [] state = "NotDeliverable" ->
            << [op |-> "publish", arg |-> "return.money"],
               [op |-> "publish", arg |-> "return.money"] >>
      [] state = "Returned" -> << >>

\* order_confirm_states.py: the awaited calls of <State>.on_enter, in order
ConfirmEnterOps(state) ==
    CASE state = "Pending" -> << [op |-> "publish", arg |-> "pay"] >>
      [] state = "Paid" -> << [op |-> "publish", arg |-> "check.delivery"] >>
      [] state = "Confirmed" ->
            << [op |-> "update_order_fabrication_status", arg |-> "Requested"],
               [op |-> "publish", arg |-> "order.created"] >>
      [] state = "NoMoney" -> << >>
      [] state = "NotDeliverable" -> << [op |-> "publish", arg |-> "return.money"] >>
      [] state = "Returned" -> << >>

\* OrderSaga._persist_state of the saga the handlers drive: the awaited call that
\* persists creation_status = <state> when the state is entered
_persist_state(state) == << [op |-> "update_order_creation_status", arg |-> state] >>

\* the awaited calls of a confirmation-saga coroutine: start() runs on_enter only,
\* on_event_saga persists the state and then runs on_enter
ConfirmTaskOps(t) ==
    IF t.kind = "confirm_evt"
    THEN _persist_state(t.entering) \o ConfirmEnterOps(t.entering)
    ELSE ConfirmEnterOps(t.entering)

\* crud.create_order_from_schema: the new row
\* the quantities of pieces a request may carry (OrderBase: int, ge=0, default 0)
Pieces == 0..MaxPieces

\* crud.create_order_from_schema with a total that forgets pieces_b
create_order_from_schema_mut(pieces_a, pieces_b) ==
    [exists |-> TRUE, creation_status |-> "Pending",
     fabrication_status |-> "NotStarted", delivery_status |-> "NotStarted",
     status |-> "Pending",
     pieces_a |-> pieces_a, pieces_b |-> pieces_b, number_of_pieces |-> pieces_a]

\* crud.create_order_from_schema: the row it persists
create_order_from_schema(pieces_a, pieces_b) ==
    LET total == pieces_a + pieces_b IN
    [exists |-> TRUE, creation_status |-> "Pending",
     fabrication_status |-> "NotStarted", delivery_status |-> "NotStarted",
     status |-> "Pending",
     pieces_a |-> pieces_a, pieces_b |-> pieces_b, number_of_pieces |-> total]

\* a new order of one piece A and one piece B
NewOrder == create_order_from_schema(1, 1)

\* SagaManager.start_saga: register a new OrderSaga and schedule run_saga()
start_saga(order_id) ==
    /\ saga_obj' = [saga_obj EXCEPT ![order_id] =
                        [created |-> TRUE, order_id |-> order_id,
                         state |-> "Pending", last_error |-> "None"]]
    /\ active_sagas' = active_sagas \cup {order_id}
    /\ tasks' = [tasks EXCEPT ![LowestFree] =
                        NewTask("confirm_start", order_id, "None", 0, "None")]

\* POST /order: create the order and start its confirmation saga
CreateOrder(o, pieces_a, pieces_b) ==
    /\ ~orders[o].exists
    /\ \A p \in Orders : ~orders[p].exists => o <= p
    /\ FreeSlots # {}
    /\ orders' = [orders EXCEPT ![o] = create_order_from_schema(pieces_a, pieces_b)]
    /\ creation_writes' = [creation_writes EXCEPT ![o] = <<"Pending">>]
    /\ start_saga(o)
    /\ response' = 201
    /\ UNCHANGED <<cancel_saga, cancel_active_sagas, cancel_obj, published, record_writes,
                   delivered, failures, fn, dropped,
                   raised, logs_lost>>

\* OrderSaga.start, first step of run_saga(): on_enter of the state the saga is in
ConfirmStartRun(i) ==
    /\ tasks[i].kind = "confirm_start"
    /\ tasks[i].step = 0
    /\ tasks' = [tasks EXCEPT ![i] =
          IF Len(ConfirmEnterOps(saga_obj[tasks[i].key].state)) = 0
          THEN IdleTask
          ELSE [@ EXCEPT !.entering = saga_obj[tasks[i].key].state, !.step = 1]]
    /\ UNCHANGED <<orders, cancel_saga, active_sagas, saga_obj, cancel_active_sagas,
                   cancel_obj, published, record_writes, creation_writes, delivered,
                   failures, response, fn, dropped,
                   raised, logs_lost>>

\* one awaited call of <State>.on_enter of the confirmation saga completes;
\* after the last one on_event_saga calls on_finish for a final state
ConfirmEnterStep(i) ==
    LET t == tasks[i]
        oid == t.key
        ops == ConfirmTaskOps(t)
        op == ops[t.step]
        last == t.step = Len(ops)
    IN
    /\ t.kind \in {"confirm_start", "confirm_evt"}
    /\ t.step >= 1
    /\ CASE op.op = "update_order_creation_status" ->
              /\ orders' = update_order_creation_status(orders, oid, op.arg)
              /\ creation_writes' = [creation_writes EXCEPT ![oid] = Log(@, op.arg)]
              /\ UNCHANGED published
         [] op.op = "update_order_fabrication_status" ->
              /\ orders' = update_order_fabrication_status(orders, oid, op.arg)
              /\ UNCHANGED <<published, creation_writes>>
         [] op.op = "publish" ->
              /\ published' = publish(published, op.arg, oid)
              /\ UNCHANGED <<orders, creation_writes>>
    /\ tasks' = [tasks EXCEPT ![i] = IF last THEN IdleTask ELSE [t EXCEPT !.step = @ + 1]]
    /\ active_sagas' =
          IF last /\ t.kind = "confirm_evt" /\ t.entering \in CONFIRM_FINAL_STATES
          THEN active_sagas \ {oid}
          ELSE active_sagas
    /\ UNCHANGED <<cancel_saga, saga_obj, cancel_active_sagas, cancel_obj, record_writes,
                   delivered, failures, response, fn, dropped,
                   raised, logs_lost>>

\* the awaited call raises (database or bus error): the coroutine ends there
ConfirmEnterFail(i) ==
    /\ tasks[i].kind \in {"confirm_start", "confirm_evt"}
    /\ tasks[i].step >= 1
    /\ failures < MaxFailures
    /\ failures' = failures + 1
    /\ tasks' = [tasks EXCEPT ![i] = IdleTask]
    /\ UNCHANGED <<orders, cancel_saga, active_sagas, saga_obj, cancel_active_sagas,
                   cancel_obj, published, record_writes, creation_writes, delivered,
                   response, fn, dropped,
                   raised, logs_lost>>

\* OrderSaga.on_event_saga up to its first suspension point
OrderSaga_on_event_saga(o, type) ==
    LET cur == saga_obj[o].state
        new_state == ConfirmOnEvent(cur, type)
    IN
    IF new_state # cur
    THEN /\ FreeSlots # {}
         /\ saga_obj' = [saga_obj EXCEPT ![o].state = new_state]
         /\ tasks' = [tasks EXCEPT ![LowestFree] =
                        NewTask("confirm_evt", o, new_state, 1, cur)]
    ELSE UNCHANGED <<saga_obj, tasks>>

PaymentStatuses == {"paid", "Paid", "not_paid", " NOT_PAID ", "refused"}
DeliveryResults == {"deliverable", " Deliverable ", "not_deliverable", "unknown"}

\* saga_broker_order_confirm.handle_payment_result
HandlePaymentResult(o, raw_status) ==
    LET status == StripLower(raw_status) IN
    /\ delivered < MaxEvents
    /\ delivered' = delivered + 1
    /\ dropped' = IF status \in {"paid", "not_paid"} /\ o \notin active_sagas THEN dropped + 1 ELSE dropped
    /\ IF status \in {"paid", "not_paid"} /\ o \in active_sagas
       THEN OrderSaga_on_event_saga(o, IF status = "paid" THEN "payment_accepted"
                                       ELSE "payment_rejected")
       ELSE UNCHANGED <<saga_obj, tasks>>
    /\ UNCHANGED <<orders, cancel_saga, active_sagas, cancel_active_sagas, cancel_obj,
                   published, record_writes, creation_writes, failures, response, fn,
                   raised, logs_lost>>

\* saga_broker_order_confirm.handle_delivery_result
HandleDeliveryResult(o, raw_status) ==
    LET status == StripLower(raw_status) IN
    /\ delivered < MaxEvents
    /\ delivered' = delivered + 1
    /\ dropped' = IF status \in {"deliverable", "not_deliverable"} /\ o \notin active_sagas THEN dropped + 1 ELSE dropped
    /\ IF status \in {"deliverable", "not_deliverable"} /\ o \in active_sagas
       THEN OrderSaga_on_event_saga(o, IF status = "deliverable" THEN "delivery_possible"
                                       ELSE "delivery_not_possible")
       ELSE UNCHANGED <<saga_obj, tasks>>
    /\ UNCHANGED <<orders, cancel_saga, active_sagas, cancel_active_sagas, cancel_obj,
                   published, record_writes, creation_writes, failures, response, fn,
                   raised, logs_lost>>

\* handle_money_returned that marks the order Returned when no saga is registered
HandleMoneyReturned_mut(o) ==
    /\ delivered < MaxEvents
    /\ delivered' = delivered + 1
    /\ dropped' = IF o \notin active_sagas THEN dropped + 1 ELSE dropped
    /\ IF o \in active_sagas
       THEN /\ OrderSaga_on_event_saga(o, "money_returned")
            /\ UNCHANGED orders
       ELSE /\ orders' = update_order_creation_status(orders, o, "Returned")
            /\ UNCHANGED <<saga_obj, tasks>>
    /\ UNCHANGED <<cancel_saga, active_sagas, cancel_active_sagas, cancel_obj,
                   published, record_writes, creation_writes, failures, response, fn,
                   raised, logs_lost>>

\* saga_broker_order_confirm.handle_money_returned
HandleMoneyReturned(o) ==
    /\ delivered < MaxEvents
    /\ delivered' = delivered + 1
    /\ dropped' = IF o \notin active_sagas THEN dropped + 1 ELSE dropped
    /\ IF o \in active_sagas
       THEN OrderSaga_on_event_saga(o, "money_returned")
       ELSE UNCHANGED <<saga_obj, tasks>>
    /\ UNCHANGED <<orders, cancel_saga, active_sagas, cancel_active_sagas, cancel_obj,
                   published, record_writes, creation_writes, failures, response, fn,
                   raised, logs_lost>>

\* order_broker_service.handle_payment_paid (legacy payment.paid)
HandlePaymentPaid(o) ==
    /\ delivered < MaxEvents
    /\ delivered' = delivered + 1
    /\ orders' = update_order_creation_status(orders, o, "Paid")
    /\ creation_writes' = [creation_writes EXCEPT ![o] =
                              IF orders[o].exists THEN Log(@, "Paid") ELSE @]
    /\ UNCHANGED <<cancel_saga, active_sagas, saga_obj, cancel_active_sagas, cancel_obj,
                   tasks, published, record_writes, failures, response, fn, dropped,
                   raised, logs_lost>>

\* statuses carried by delivery.ready
DeliveryReadyStatuses == {"Ready", "Delivered"}

\* the awaited call of publish_to_logger that fails, if any
LoggerFailures == {"none", "get_channel", "declare_exchange_logs", "publish", "close"}

\* publish_to_logger whose try block starts after get_channel
publish_to_logger_mut(fail_at) ==
    LET caught == fail_at \in {"declare_exchange_logs", "publish"}
        connection == fail_at # "get_channel"
    IN
    IF fail_at = "none" THEN "returned"
    ELSE IF caught THEN "returned"
    ELSE "raised"

\* order_broker_service.publish_to_logger: how the call ends for its caller.
\* get_channel, declare_exchange_logs and exchange.publish are inside
\* try / except Exception; connection.close() is awaited in the finally block
\* when a connection was obtained
publish_to_logger(fail_at) ==
    LET caught == fail_at \in {"get_channel", "declare_exchange_logs", "publish"}
        connection == fail_at # "get_channel"
    IN
    IF fail_at = "none" THEN "returned"
    ELSE IF caught THEN "returned"
    ELSE IF connection /\ fail_at = "close" THEN "raised"
    ELSE "returned"

\* order_broker_service.handle_delivery_ready: the status is persisted, then the
\* audit record is published
HandleDeliveryReady(o, status, fail_at) ==
    /\ delivered < MaxEvents
    /\ delivered' = delivered + 1
    /\ fail_at # "none" => failures < MaxFailures
    /\ failures' = IF fail_at # "none" THEN failures + 1 ELSE failures
    /\ orders' = update_order_delivery_status(orders, o, status)
    /\ logs_lost' = IF fail_at \in {"none", "close"} THEN logs_lost ELSE logs_lost + 1
    /\ raised' = IF publish_to_logger(fail_at) = "raised" THEN raised + 1 ELSE raised
    /\ UNCHANGED <<cancel_saga, active_sagas, saga_obj, cancel_active_sagas, cancel_obj,
                   tasks, published, record_writes, creation_writes, response,
                   fn, dropped>>

\* ------------------------------------------------------- warehouse events

\* str.replace(a, b) for one-character a and b
Replace(v, a, b) == [k \in 1..Len(v) |-> IF v[k] = a THEN b ELSE v[k]]

\* str(raw).strip().replace("-", "_").replace(" ", "_"): the lower() is left out
Canon_mut(raw) == Replace(Replace(StripChars(Chars(raw)), "-", "_"), " ", "_")

\* str(raw).strip().lower().replace("-", "_").replace(" ", "_")
Canon(raw) == Replace(Replace(Lower(StripChars(Chars(raw))), "-", "_"), " ", "_")

\* the literal sets the normalizer tests v against
COMPLETED_WORDS == {Chars(w) : w \in {"completed", "complete", "done", "finished", "fabricated"}}
IN_PROGRESS_WORDS == {Chars(w) : w \in {"in_progress", "inprogress", "working", "manufacturing", "fabricating", "running"}}
REQUESTED_WORDS == {Chars(w) : w \in {"requested", "request", "queued", "pending", "created"}}
FAILED_WORDS == {Chars(w) : w \in {"failed", "error", "ko", "rejected"}}

\* order_broker_service._normalize_fabrication_status
_normalize_fabrication_status(raw) ==
    IF raw = "None" \/ raw = "" THEN "InProgress"
    ELSE LET v == Canon(raw) IN
         IF v \in COMPLETED_WORDS THEN "Completed"
         ELSE IF v \in IN_PROGRESS_WORDS THEN "InProgress"
         ELSE IF v \in REQUESTED_WORDS THEN "Requested"
         ELSE IF v \in FAILED_WORDS THEN "Failed"
         ELSE "InProgress"

WarehouseStatuses == {"completed", " DONE ", "In-Progress", "requested", "failed", "None"}

\* order_broker_service.handle_warehouse_event up to the read of the order:
\* the status is normalized and the previous statuses are captured
HandleWarehouseEvent(o, raw_status) ==
    LET new_status == _normalize_fabrication_status(raw_status)
        current == orders[o]
    IN
    /\ delivered < MaxEvents
    /\ delivered' = delivered + 1
    /\ IF ~current.exists
       THEN UNCHANGED tasks
       ELSE /\ FreeSlots # {}
            /\ tasks' = [tasks EXCEPT ![LowestFree] =
                  [IdleTask EXCEPT !.kind = "warehouse", !.key = o, !.step = 2,
                                   !.new_status = new_status,
                                   !.prev_fab_status = current.fabrication_status,
                                   !.prev_delivery_status = current.delivery_status]]
    /\ UNCHANGED <<orders, cancel_saga, active_sagas, saga_obj, cancel_active_sagas,
                   cancel_obj, published, record_writes, creation_writes, failures,
                   response, fn, dropped,
                   raised, logs_lost>>

\* handle_warehouse_event without the test of the previous fabrication status
WarehouseWrite_mut(i) ==
    LET t == tasks[i] IN
    /\ t.kind = "warehouse"
    /\ t.step = 2
    /\ orders' = update_order_fabrication_status(orders, t.key, t.new_status)
    /\ tasks' = [tasks EXCEPT ![i] =
          IF /\ t.new_status = "Completed"
             /\ t.prev_delivery_status = "NotStarted"
          THEN [t EXCEPT !.step = 3]
          ELSE IdleTask]
    /\ UNCHANGED <<cancel_saga, active_sagas, saga_obj, cancel_active_sagas, cancel_obj,
                   published, record_writes, creation_writes, delivered, failures,
                   response, fn, dropped,
                   raised, logs_lost>>

\* handle_warehouse_event, step 2: the new fabrication status is persisted
WarehouseWrite(i) ==
    LET t == tasks[i] IN
    /\ t.kind = "warehouse"
    /\ t.step = 2
    /\ orders' = update_order_fabrication_status(orders, t.key, t.new_status)
    /\ tasks' = [tasks EXCEPT ![i] =
          IF /\ t.new_status = "Completed"
             /\ t.prev_fab_status # "Completed"
             /\ t.prev_delivery_status = "NotStarted"
          THEN [t EXCEPT !.step = 3]
          ELSE IdleTask]
    /\ UNCHANGED <<cancel_saga, active_sagas, saga_obj, cancel_active_sagas, cancel_obj,
                   published, record_writes, creation_writes, delivered, failures,
                   response, fn, dropped,
                   raised, logs_lost>>

\* handle_warehouse_event, step 3: publish_order_fabricated
WarehousePublish(i) ==
    LET t == tasks[i] IN
    /\ t.kind = "warehouse"
    /\ t.step = 3
    /\ published' = publish(published, "order.fabricated", t.key)
    /\ tasks' = [tasks EXCEPT ![i] = IdleTask]
    /\ UNCHANGED <<orders, cancel_saga, active_sagas, saga_obj, cancel_active_sagas,
                   cancel_obj, record_writes, creation_writes, delivered, failures,
                   response, fn, dropped,
                   raised, logs_lost>>

\* the awaited call of handle_warehouse_event raises: the coroutine ends there
WarehouseFail(i) ==
    /\ tasks[i].kind = "warehouse"
    /\ failures < MaxFailures
    /\ failures' = failures + 1
    /\ tasks' = [tasks EXCEPT ![i] = IdleTask]
    /\ UNCHANGED <<orders, cancel_saga, active_sagas, saga_obj, cancel_active_sagas,
                   cancel_obj, published, record_writes, creation_writes, delivered,
                   response, fn, dropped,
                   raised, logs_lost>>

\* -------------------------------------------------------- specification

Next ==
    \/ \E o \in Orders : CreateOrder(o, 1, 1)
    \/ \E o \in Orders : CancelRequest(o)
    \/ \E i \in Slots : CancelStartRun(i)
    \/ \E i \in Slots : CancelEnterStep(i)
    \/ \E i \in Slots : CancelEnterFail(i)
    \/ \E s \in SagaIds : HandleEvtFabricationCanceled(s)
    \/ \E s \in SagaIds, st \in RefundStatuses, r \in Reasons : HandleRefundResult(s, st, r)
    \/ \E i \in Slots : ConfirmStartRun(i)
    \/ \E i \in Slots : ConfirmEnterStep(i)
    \/ \E i \in Slots : ConfirmEnterFail(i)
    \/ \E o \in Orders, st \in PaymentStatuses : HandlePaymentResult(o, st)
    \/ \E o \in Orders, st \in DeliveryResults : HandleDeliveryResult(o, st)
    \/ \E o \in Orders : HandleMoneyReturned(o)
    \/ \E o \in Orders : HandlePaymentPaid(o)
    \/ \E o \in Orders, st \in DeliveryReadyStatuses, f \in LoggerFailures :
          HandleDeliveryReady(o, st, f)
    \/ \E o \in Orders, st \in WarehouseStatuses : HandleWarehouseEvent(o, st)
    \/ \E i \in Slots : WarehouseWrite(i)
    \/ \E i \in Slots : WarehousePublish(i)
    \/ \E i \in Slots : WarehouseFail(i)

Spec == Init /\ [][Next]_vars


\* The state the service is in once order 1 has gone through payment and the
\* delivery check (create, payment.result paid, delivery.result deliverable): the
\* confirmation saga has ended in Confirmed and fabrication is requested.
InitCancel ==
    /\ orders = [o \in Orders |->
                    IF o = 1
                    THEN [NewOrder EXCEPT !.creation_status = "Confirmed",
                                          !.fabrication_status = "Requested",
                                          !.status = "Requested"]
                    ELSE NoOrder]
    /\ cancel_saga = [s \in SagaIds |-> NoCancelSaga]
    /\ active_sagas = {}
    /\ saga_obj = [o \in Orders |->
                    IF o = 1
                    THEN [created |-> TRUE, order_id |-> 1, state |-> "Confirmed",
                          last_error |-> "None"]
                    ELSE NoSaga]
    /\ cancel_active_sagas = {}
    /\ cancel_obj = [s \in SagaIds |-> NoSaga]
    /\ tasks = [i \in Slots |-> IdleTask]
    /\ published = [rk \in RoutingKeys |-> [k \in Ids |->
                    IF k = 1 /\ rk \in {"pay", "check.delivery", "order.created"}
                    THEN 1 ELSE 0]]
    /\ record_writes = [s \in SagaIds |-> << >>]
    /\ creation_writes = [o \in Orders |->
                    IF o = 1 THEN <<"Pending", "Paid", "Confirmed">> ELSE << >>]
    /\ delivered = 0
    /\ failures = 0
    /\ response = 201
    /\ fn = FnInit
    /\ dropped = 0
    /\ raised = 0
    /\ logs_lost = 0

NextCancel ==
    \/ \E o \in Orders : CancelRequest(o)
    \/ \E i \in Slots : CancelStartRun(i)
    \/ \E i \in Slots : CancelEnterStep(i)
    \/ \E i \in Slots : CancelEnterFail(i)
    \/ \E s \in SagaIds : HandleEvtFabricationCanceled(s)
    \/ \E s \in SagaIds, st \in RefundStatuses, r \in Reasons : HandleRefundResult(s, st, r)
    \/ \E o \in Orders, st \in PaymentStatuses : HandlePaymentResult(o, st)
    \/ \E o \in Orders, st \in DeliveryResults : HandleDeliveryResult(o, st)
    \/ \E o \in Orders : HandleMoneyReturned(o)
    \/ \E o \in Orders : HandlePaymentPaid(o)
    \/ \E o \in Orders, st \in DeliveryReadyStatuses, f \in LoggerFailures :
          HandleDeliveryReady(o, st, f)
    \/ \E o \in Orders, st \in WarehouseStatuses : HandleWarehouseEvent(o, st)
    \/ \E i \in Slots : WarehouseWrite(i)
    \/ \E i \in Slots : WarehousePublish(i)
    \/ \E i \in Slots : WarehouseFail(i)

\* the service from the state where order 1 is confirmed and in fabrication
SpecCancel == InitCancel /\ [][NextCancel]_vars

\* at most one coroutine is in flight after the step: every request and message is
\* handled to completion before the next one is delivered
Serial == Cardinality({i \in Slots : tasks'[i].kind # "idle"}) <= 1

NextSerial ==
    \/ \E o \in Orders, pa \in Pieces, pb \in Pieces : CreateOrder(o, pa, pb) /\ Serial
    \/ \E o \in Orders : CancelRequest(o) /\ Serial
    \/ \E i \in Slots : CancelStartRun(i) /\ Serial
    \/ \E i \in Slots : CancelEnterStep(i) /\ Serial
    \/ \E i \in Slots : CancelEnterFail(i) /\ Serial
    \/ \E s \in SagaIds : HandleEvtFabricationCanceled(s) /\ Serial
    \/ \E s \in SagaIds, st \in RefundStatuses, r \in Reasons : HandleRefundResult(s, st, r) /\ Serial
    \/ \E i \in Slots : ConfirmStartRun(i) /\ Serial
    \/ \E i \in Slots : ConfirmEnterStep(i) /\ Serial
    \/ \E i \in Slots : ConfirmEnterFail(i) /\ Serial
    \/ \E o \in Orders, st \in PaymentStatuses : HandlePaymentResult(o, st) /\ Serial
    \/ \E o \in Orders, st \in DeliveryResults : HandleDeliveryResult(o, st) /\ Serial
    \/ \E o \in Orders : HandleMoneyReturned(o) /\ Serial
    \/ \E o \in Orders : HandlePaymentPaid(o) /\ Serial
    \/ \E o \in Orders, st \in DeliveryReadyStatuses, f \in LoggerFailures :
          HandleDeliveryReady(o, st, f) /\ Serial
    \/ \E o \in Orders, st \in WarehouseStatuses : HandleWarehouseEvent(o, st) /\ Serial
    \/ \E i \in Slots : WarehouseWrite(i) /\ Serial
    \/ \E i \in Slots : WarehousePublish(i) /\ Serial
    \/ \E i \in Slots : WarehouseFail(i) /\ Serial

\* the service when requests and messages are handled one after another
SpecSerial == Init /\ [][NextSerial]_vars

NextCancelSerial ==
    \/ \E o \in Orders : CancelRequest(o) /\ Serial
    \/ \E i \in Slots : CancelStartRun(i) /\ Serial
    \/ \E i \in Slots : CancelEnterStep(i) /\ Serial
    \/ \E i \in Slots : CancelEnterFail(i) /\ Serial
    \/ \E s \in SagaIds : HandleEvtFabricationCanceled(s) /\ Serial
    \/ \E s \in SagaIds, st \in RefundStatuses, r \in Reasons : HandleRefundResult(s, st, r) /\ Serial
    \/ \E o \in Orders, st \in PaymentStatuses : HandlePaymentResult(o, st) /\ Serial
    \/ \E o \in Orders, st \in DeliveryResults : HandleDeliveryResult(o, st) /\ Serial
    \/ \E o \in Orders : HandleMoneyReturned(o) /\ Serial
    \/ \E o \in Orders : HandlePaymentPaid(o) /\ Serial
    \/ \E o \in Orders, st \in DeliveryReadyStatuses, f \in LoggerFailures :
          HandleDeliveryReady(o, st, f) /\ Serial
    \/ \E o \in Orders, st \in WarehouseStatuses : HandleWarehouseEvent(o, st) /\ Serial
    \/ \E i \in Slots : WarehouseWrite(i) /\ Serial
    \/ \E i \in Slots : WarehousePublish(i) /\ Serial
    \/ \E i \in Slots : WarehouseFail(i) /\ Serial

\* the same, from the state where order 1 is confirmed and in fabrication
SpecCancelSerial == InitCancel /\ [][NextCancelSerial]_vars

\* SagaManager.start_saga called for an order whose saga is already registered
StartSagaCall(o) ==
    /\ delivered < MaxEvents
    /\ delivered' = delivered + 1
    /\ o \in active_sagas
    /\ FreeSlots # {}
    /\ start_saga(o)
    /\ UNCHANGED <<orders, cancel_saga, cancel_active_sagas, cancel_obj, published,
                   record_writes, creation_writes, failures, response, fn, dropped,
                   raised, logs_lost>>

\* CancelSagaManager.start_saga called for a saga_id that is already registered
CancelStartSagaCall(sid) ==
    /\ delivered < MaxEvents
    /\ delivered' = delivered + 1
    /\ sid \in cancel_active_sagas
    /\ FreeSlots # {}
    /\ start_cancel_saga(cancel_obj[sid].order_id, sid)
    /\ UNCHANGED <<orders, cancel_saga, active_sagas, saga_obj, published,
                   record_writes, creation_writes, failures, response, fn, dropped,
                   raised, logs_lost>>

NextStart ==
    \/ NextSerial
    \/ \E o \in Orders : StartSagaCall(o) /\ Serial
    \/ \E sid \in SagaIds : CancelStartSagaCall(sid) /\ Serial

\* the service, with the registries' start_saga also called for active keys
SpecStart == Init /\ [][NextStart]_vars

\* ------------------------------------------- the state machines alone

\* event types the confirmation states are handed: those the handlers build,
\* the entry events, padded variants and an unknown one
ConfirmEvents == {"order_created", "payment_accepted", " payment_accepted ",
                  "payment_rejected", "paid", "delivery_possible",
                  "delivery_not_possible", "notdeliverable", "money_returned",
                  "money_returned ", "unknown"}

\* event types the cancellation states are handed
CancelEvents == {"fabrication_canceled", "refunded", "refund_failed", "unknown"}

\* OrderSaga.on_event: the current state computes the next one, which replaces it
ApplyConfirmEvent(type) ==
    LET new_state == ConfirmOnEvent(fn.confirm, type) IN
    /\ fn.n < MaxSteps
    /\ fn' = [fn EXCEPT !.n = @ + 1, !.machine = "confirm", !.from = fn.confirm,
                        !.evt = type, !.confirm = new_state,
                        !.confirm_hist = Log(@, new_state)]
    /\ UNCHANGED <<orders, cancel_saga, active_sagas, saga_obj, cancel_active_sagas,
                   cancel_obj, tasks, published, record_writes, creation_writes,
                   delivered, failures, response, dropped,
                   raised, logs_lost>>

\* CancelSaga.on_event_saga: the current state computes the next one, which replaces it
ApplyCancelEvent(type) ==
    LET new_state == CancelOnEvent(fn.cancel, type) IN
    /\ fn.n < MaxSteps
    /\ fn' = [fn EXCEPT !.n = @ + 1, !.machine = "cancel", !.from = fn.cancel,
                        !.evt = type, !.cancel = new_state,
                        !.cancel_hist = Log(@, new_state)]
    /\ UNCHANGED <<orders, cancel_saga, active_sagas, saga_obj, cancel_active_sagas,
                   cancel_obj, tasks, published, record_writes, creation_writes,
                   delivered, failures, response, dropped,
                   raised, logs_lost>>

NextFn ==
    \/ \E type \in ConfirmEvents : ApplyConfirmEvent(type)
    \/ \E type \in CancelEvents : ApplyCancelEvent(type)

\* both state machines fed arbitrary event sequences
SpecFn == Init /\ [][NextFn]_vars

\* _normalize_fabrication_status called on one status string
ApplyNormalize(raw) ==
    /\ fn.n < MaxSteps
    /\ fn' = [fn EXCEPT !.n = @ + 1, !.machine = "normalize", !.raw = raw,
                        !.out = _normalize_fabrication_status(raw)]
    /\ UNCHANGED <<orders, cancel_saga, active_sagas, saga_obj, cancel_active_sagas,
                   cancel_obj, tasks, published, record_writes, creation_writes,
                   delivered, failures, response, dropped,
                   raised, logs_lost>>

NextNorm == \E raw \in NormInputs : ApplyNormalize(raw)

\* the normalizer fed arbitrary status strings
SpecNorm == Init /\ [][NextNorm]_vars

\* a rule that lets fabrication decide before delivery
compute_overall_status_mut(order) ==
    IF order.fabrication_status # "NotStarted"
    THEN "Manufacturing:" \o order.fabrication_status
    ELSE IF order.delivery_status # "NotStarted"
    THEN "Delivery:" \o order.delivery_status
    ELSE "Creation:" \o order.creation_status

\* order_service.compute_overall_status
compute_overall_status(order) ==
    IF order.delivery_status # "NotStarted"
    THEN "Delivery:" \o order.delivery_status
    ELSE IF order.fabrication_status # "NotStarted"
    THEN "Manufacturing:" \o order.fabrication_status
    ELSE "Creation:" \o order.creation_status

\* compute_overall_status called on an order row with any three phase statuses
ApplyOverall(c, f, d) ==
    LET row == [NewOrder EXCEPT !.creation_status = c, !.fabrication_status = f,
                                !.delivery_status = d]
    IN
    /\ fn.n < MaxSteps
    /\ fn' = [fn EXCEPT !.n = @ + 1, !.machine = "overall", !.order = row,
                        !.overall = compute_overall_status(row)]
    /\ UNCHANGED <<orders, cancel_saga, active_sagas, saga_obj, cancel_active_sagas,
                   cancel_obj, tasks, published, record_writes, creation_writes,
                   delivered, failures, response, dropped,
                   raised, logs_lost>>

NextOverall ==
    \E c \in CreationStatuses, f \in FabricationStatuses, d \in DeliveryStatuses :
        ApplyOverall(c, f, d)

\* the overall-status rule fed any combination of phase statuses
SpecOverall == Init /\ [][NextOverall]_vars

\* ------------------------------------------- the update functions alone

\* the ids the update functions are called with: two stored rows and a missing one
CrudIds == 1..3

\* an order table with two rows of different piece counts; id 3 is not stored
CrudTable ==
    [k \in CrudIds |->
        CASE k = 1 -> create_order_from_schema(1, 0)
          [] k = 2 -> [create_order_from_schema(1, 1) EXCEPT
                          !.creation_status = "Confirmed",
                          !.fabrication_status = "Requested", !.status = "Requested"]
          [] OTHER -> NoOrder]

CrudCalls == {"update_order_creation_status", "update_order_fabrication_status",
              "update_order_delivery_status"}

\* the statuses written in the calls
CrudStatuses == {"Paid", "Completed", "Ready"}

\* one call of an update function on the table; it returns the row or None
ApplyUpdate(call, id, status) ==
    LET cur == IF fn.call = "None" THEN CrudTable ELSE fn.tbl
        new == CASE call = "update_order_creation_status" ->
                       update_order_creation_status(cur, id, status)
                 [] call = "update_order_fabrication_status" ->
                       update_order_fabrication_status(cur, id, status)
                 [] call = "update_order_delivery_status" ->
                       update_order_delivery_status(cur, id, status)
    IN
    /\ fn.n < MaxSteps
    /\ fn' = [fn EXCEPT !.n = @ + 1, !.machine = "crud", !.call = call, !.id = id,
                        !.arg = status, !.before = cur, !.tbl = new,
                        !.ret = IF cur[id].exists THEN "row" ELSE "None"]
    /\ UNCHANGED <<orders, cancel_saga, active_sagas, saga_obj, cancel_active_sagas,
                   cancel_obj, tasks, published, record_writes, creation_writes,
                   delivered, failures, response, dropped,
                   raised, logs_lost>>

NextCrud ==
    \E call \in CrudCalls, id \in CrudIds, status \in CrudStatuses :
        ApplyUpdate(call, id, status)

\* the three update functions called in any order on a table of two rows
SpecCrud == Init /\ [][NextCrud]_vars

\* --------------------------------------------- messages that do not parse

\* the consumers whose handlers decode a payload and look for its correlation field
Handlers == {"warehouse", "payment.result", "delivery.result", "money.returned",
             "evt.fabrication_canceled", "refund.result"}

\* bodies that carry no usable correlation field: bytes that are not JSON, the
\* JSON value null, a JSON array, an object without the field, an object whose
\* field is 0 or null
MalformedBodies == {"not_json", "null", "[1]", "{}", "{key: 0}"}

\* json.loads(body): "error" when it raises, else the kind of value it returns
json_loads(body) ==
    CASE body = "not_json" -> "error"
      [] body = "null" -> "None"
      [] body = "[1]" -> "list"
      [] OTHER -> "dict"

\* truth value of what json.loads returned, as `if not data` tests it
Truthy(body) == body \in {"[1]", "{key: 0}"}

\* data.get(...) raises AttributeError unless data is a dict
GetRaises(body) == json_loads(body) \in {"None", "list"}

\* the head of a handler, from `async with message.process()` to the test of the
\* correlation field, on a body that does not get past that test:
\* handle_warehouse_event catches the error of json.loads and then calls data.get;
\* the saga handlers call _safe_json_loads, return on a falsy value, then call data.get
HandleMalformed(h, body) ==
    LET raises ==
          IF json_loads(body) = "error" THEN FALSE
          ELSE IF h = "warehouse" THEN GetRaises(body)
          ELSE IF ~Truthy(body) THEN FALSE
          ELSE GetRaises(body)
    IN
    /\ delivered < MaxEvents
    /\ delivered' = delivered + 1
    /\ raised' = IF raises THEN raised + 1 ELSE raised
    /\ UNCHANGED <<orders, cancel_saga, active_sagas, saga_obj, cancel_active_sagas,
                   cancel_obj, tasks, published, record_writes, creation_writes,
                   failures, response, fn, dropped, logs_lost>>

NextIngress ==
    \/ NextSerial
    \/ \E h \in Handlers, body \in MalformedBodies : HandleMalformed(h, body) /\ Serial

\* the service receiving malformed messages among the well-formed ones
SpecIngress == Init /\ [][NextIngress]_vars

\* ------------------------------------- cancellation under fair scheduling

\* the cancellation saga and the warehouse events when no awaited call raises
NextCancelLive ==
    \/ \E o \in Orders : CancelRequest(o)
    \/ \E i \in Slots : CancelStartRun(i)
    \/ \E i \in Slots : CancelEnterStep(i)
    \/ \E s \in SagaIds : HandleEvtFabricationCanceled(s)
    \/ \E s \in SagaIds, st \in RefundStatuses, r \in Reasons : HandleRefundResult(s, st, r)
    \/ \E o \in Orders, st \in WarehouseStatuses : HandleWarehouseEvent(o, st)
    \/ \E i \in Slots : WarehouseWrite(i)
    \/ \E i \in Slots : WarehousePublish(i)

\* the event loop runs every task that is ready: a coroutine created by
\* asyncio.create_task or suspended in an awaited call is eventually resumed
TaskFairness ==
    \A i \in Slots :
        /\ WF_vars(CancelStartRun(i))
        /\ WF_vars(CancelEnterStep(i))
        /\ WF_vars(WarehouseWrite(i))
        /\ WF_vars(WarehousePublish(i))

\* the service from the state where order 1 is in fabrication, no call failing,
\* every ready task eventually run
SpecCancelLive == InitCancel /\ [][NextCancelLive]_vars /\ TaskFairness

\* ------------------------------------------------- legacy payment.failed

\* the functions services/order_service.py defines
order_service == {"compute_overall_status", "update_order_creation_status",
                  "update_order_fabrication_status", "update_order_delivery_status",
                  "get_order_by_id", "create_cancel_saga", "update_cancel_saga"}

\* the status field of a payment.failed payload
PaymentFailedStatuses == {"NoMoney"}

\* order_broker_service.handle_payment_failed: the audit record is published, then
\* order_service.update_order_status is looked up; the module has no such function,
\* the lookup raises AttributeError and no row is written
HandlePaymentFailed(o, status, fail_at) ==
    LET raises == \/ publish_to_logger(fail_at) = "raised"
                  \/ "update_order_status" \notin order_service
    IN
    /\ delivered < MaxEvents
    /\ delivered' = delivered + 1
    /\ fail_at # "none" => failures < MaxFailures
    /\ failures' = IF fail_at # "none" THEN failures + 1 ELSE failures
    /\ logs_lost' = IF fail_at \in {"none", "close"} THEN logs_lost ELSE logs_lost + 1
    /\ raised' = IF raises THEN raised + 1 ELSE raised
    /\ UNCHANGED <<orders, cancel_saga, active_sagas, saga_obj, cancel_active_sagas,
                   cancel_obj, tasks, published, record_writes, creation_writes,
                   response, fn, dropped>>

NextLegacy ==
    \/ NextSerial
    \/ \E o \in Orders, st \in PaymentFailedStatuses, f \in LoggerFailures :
          HandlePaymentFailed(o, st, f) /\ Serial

\* the service receiving legacy payment.failed events among the others
SpecLegacy == Init /\ [][NextLegacy]_vars

\* ------------------------------------------------------------- properties

IsPrefix(h, path) == Len(h) <= Len(path) /\ \A k \in 1..Len(h) : h[k] = path[k]

\* the transition table of the confirmation saga as the specification states it
ConfirmTable(state, evt) ==
    CASE state = "Pending" /\ evt = "payment_accepted" -> "Paid"
      [] state = "Pending" /\ evt = "payment_rejected" -> "NoMoney"
      [] state = "Paid" /\ evt = "delivery_possible" -> "Confirmed"
      [] state = "Paid" /\ evt = "delivery_not_possible" -> "NotDeliverable"
      [] state = "NotDeliverable" /\ evt = "money_returned" -> "Returned"
      [] OTHER -> state

\* C7: the confirmation saga starts in Pending; each event moves it exactly as the
\* table says (Pending+payment_accepted -> Paid, Pending+payment_rejected -> NoMoney,
\* Paid+delivery_possible -> Confirmed, Paid+delivery_not_possible -> NotDeliverable,
\* NotDeliverable+money_returned -> Returned, anything else leaves the state alone),
\* so Confirmed, NoMoney and Returned are absorbing and the history of states is a
\* prefix of one of the three paths.
C7_ConfirmTransitions ==
    /\ fn.confirm_hist[1] = "Pending"
    /\ fn.machine = "confirm" => fn.confirm = ConfirmTable(fn.from, Strip(fn.evt))
    /\ (fn.machine = "confirm" /\ fn.from \in CONFIRM_FINAL_STATES) => fn.confirm = fn.from
    /\ \/ IsPrefix(fn.confirm_hist, <<"Pending", "Paid", "Confirmed">>)
       \/ IsPrefix(fn.confirm_hist, <<"Pending", "NoMoney">>)
       \/ IsPrefix(fn.confirm_hist, <<"Pending", "Paid", "NotDeliverable", "Returned">>)

\* the compensation path was walked to its end and a further event was absorbed
C7_Witness ==
    /\ fn.machine = "confirm"
    /\ fn.confirm_hist = <<"Pending", "Paid", "NotDeliverable", "Returned">>
    /\ fn.from = "Returned"
    /\ fn.evt = "payment_accepted"

\* the transition table of the cancellation saga as the specification states it
CancelTable(state, evt) ==
    CASE state = "Canceling" /\ evt = "fabrication_canceled" -> "Refunding"
      [] state = "Refunding" /\ evt = "refunded" -> "Canceled"
      [] state = "Refunding" /\ evt = "refund_failed" -> "CancelPendingRefund"
      [] OTHER -> state

\* C8: the cancellation saga starts in Canceling; each event moves it exactly as the
\* table says (Canceling+fabrication_canceled -> Refunding, Refunding+refunded ->
\* Canceled, Refunding+refund_failed -> CancelPendingRefund, anything else leaves the
\* state alone): refunded and refund_failed are ignored in Canceling, and Canceled and
\* CancelPendingRefund are absorbing.
C8_CancelTransitions ==
    /\ fn.cancel_hist[1] = "Canceling"
    /\ fn.machine = "cancel" => fn.cancel = CancelTable(fn.from, fn.evt)
    /\ (fn.machine = "cancel" /\ fn.from = "Canceling"
            /\ fn.evt \in {"refunded", "refund_failed"}) => fn.cancel = "Canceling"
    /\ (fn.machine = "cancel" /\ fn.from \in FINAL_STATES) => fn.cancel = fn.from

\* a refund result was ignored in Canceling, then the happy path was walked
C8_Witness ==
    /\ fn.machine = "cancel"
    /\ fn.n = MaxSteps
    /\ fn.cancel_hist = <<"Canceling", "Refunding", "Canceled">>
    /\ fn.from = "Canceled"
    /\ fn.evt = "refund_failed"

\* C1: for every saga_id the successive values written to the cancel_saga record's
\* state are a prefix of Canceling -> Refunding -> Canceled or of
\* Canceling -> Refunding -> CancelPendingRefund, whatever the interleaving of start,
\* evt.fabrication_canceled and refund.result.
C1_RecordPrefix ==
    \A s \in SagaIds :
        \/ IsPrefix(record_writes[s], <<"Canceling", "Refunding", "Canceled">>)
        \/ IsPrefix(record_writes[s], <<"Canceling", "Refunding", "CancelPendingRefund">>)

\* C2: order.fabricated is published at most once per order, whatever the sequence
\* of warehouse events.
C2_FabricatedAtMostOnce ==
    \A o \in Orders : published["order.fabricated"][o] <= 1

\* C3: once the persisted fabrication_status is Canceled or CancelPendingRefund, no
\* step sets it to any other value.
C3_NoResume ==
    [][\A o \in Orders :
          orders[o].fabrication_status \in FINAL_STATES
              => orders'[o].fabrication_status \in FINAL_STATES]_vars

\* C4: an order whose persisted fabrication_status is Requested has persisted
\* creation_status = Confirmed.
C4_RequestedImpliesConfirmed ==
    \A o \in Orders :
        (orders[o].exists /\ orders[o].fabrication_status = "Requested")
            => orders[o].creation_status = "Confirmed"

\* a coroutine of the cancellation saga suspended inside an entry effect
InEntryEffect(i) == tasks[i].kind \in {"cancel_start", "cancel_evt"} /\ tasks[i].step >= 1

\* C5: for one saga, no call of on_event_saga or start is inside an entry effect
\* while another call for the same saga is suspended inside one.
C5_SerialPerSaga ==
    \A i, j \in Slots :
        (i # j /\ InEntryEffect(i) /\ InEntryEffect(j)) => tasks[i].key # tasks[j].key

\* C6: when the entry effect of the target state raises while the saga handles an
\* event, the saga's in-memory state afterwards is the source state.
C6_FailureKeepsSource ==
    [][\A i \in Slots :
          (tasks[i].kind = "cancel_evt" /\ tasks'[i].kind = "idle"
               /\ failures' = failures + 1)
              => cancel_obj'[tasks[i].key].state = tasks[i].old_name]_vars

C10_AdmissionOnly ==
    [][/\ \A s \in SagaIds :
            (~cancel_obj[s].created /\ cancel_obj'[s].created)
                => LET o == cancel_obj'[s].order_id IN
                   /\ orders[o].exists
                   /\ orders[o].creation_status = "Confirmed"
                   /\ orders[o].fabrication_status \in {"Requested", "InProgress"}
       /\ (response' # response /\ response' \in {404, 409})
                => UNCHANGED <<orders, cancel_saga, cancel_active_sagas, cancel_obj,
                               tasks, published, record_writes>>]_vars

\* a request was admitted, and the Canceling entry effect has written
\* fabrication_status = Canceling and published cmd.cancel_fabrication
C10_Witness ==
    /\ response = 202
    /\ cancel_obj[1].created
    /\ cancel_saga[1].exists
    /\ orders[1].fabrication_status = "Canceling"
    /\ published["cmd.cancel_fabrication"][1] = 1

\* the step in which warehouse handler i persists the new fabrication status
WarehouseWriteStep(i) ==
    /\ tasks[i].kind = "warehouse"
    /\ tasks[i].step = 2
    /\ tasks'[i] # tasks[i]
    /\ failures' = failures

\* C11: while an order's fabrication_status is Canceling, a warehouse event handled
\* for that order does not change fabrication_status.
C11_CancelingBlocksWarehouse ==
    [][\A i \in Slots :
          (WarehouseWriteStep(i) /\ orders[tasks[i].key].fabrication_status = "Canceling")
              => orders'[tasks[i].key].fabrication_status = "Canceling"]_vars

\* C12: a warehouse event handled for an order whose fabrication_status is already
\* Completed, Failed, Canceled or CancelPendingRefund writes nothing and publishes
\* nothing.
C12_TerminalIgnored ==
    [][\A i \in Slots :
          (/\ WarehouseWriteStep(i)
           /\ tasks[i].prev_fab_status \in {"Completed", "Failed", "Canceled",
                                            "CancelPendingRefund"}
           /\ orders[tasks[i].key].fabrication_status = tasks[i].prev_fab_status)
              => /\ orders' = orders
                 /\ tasks'[i].kind = "idle"]_vars

\* C13: order.fabricated is published only by a warehouse handler whose normalized
\* status is Completed and that read a fabrication_status other than Completed and a
\* delivery_status NotStarted before its write; a handler that read Completed ends
\* without publishing.
C13_PublishOnlyOnFirstCompleted ==
    [][/\ \A o \in Orders :
            published'["order.fabricated"][o] # published["order.fabricated"][o]
                => \E i \in Slots :
                      /\ tasks[i].kind = "warehouse" /\ tasks[i].key = o
                      /\ tasks[i].step = 3 /\ tasks'[i].kind = "idle"
                      /\ tasks[i].new_status = "Completed"
                      /\ tasks[i].prev_fab_status # "Completed"
                      /\ tasks[i].prev_delivery_status = "NotStarted"
                      /\ published'["order.fabricated"][o]
                            = published["order.fabricated"][o] + 1
       /\ \A i \in Slots :
            (WarehouseWriteStep(i)
                /\ (tasks[i].new_status # "Completed"
                      \/ tasks[i].prev_fab_status = "Completed"
                      \/ tasks[i].prev_delivery_status # "NotStarted"))
                => tasks'[i].kind = "idle" /\ published' = published]_vars

\* a second completed event is being handled after the first one has published:
\* it read Completed
C13_Witness ==
    \E i \in Slots :
        /\ tasks[i].kind = "warehouse" /\ tasks[i].step = 2
        /\ tasks[i].new_status = "Completed"
        /\ tasks[i].prev_fab_status = "Completed"
        /\ published["order.fabricated"][tasks[i].key] = 1
        /\ \A j \in Slots \ {i} : tasks[j].kind = "idle"

\* C14: the read of the previous fabrication_status and the write of the new one are
\* atomic with respect to the other warehouse handlers of the order: a handler that
\* writes when the persisted status is already Completed does not go on to publish
\* order.fabricated.
C14_ReadWriteAtomic ==
    [][\A i \in Slots :
          (WarehouseWriteStep(i)
              /\ orders[tasks[i].key].fabrication_status = "Completed")
              => tasks'[i].kind = "idle"]_vars

\* nothing but the count of handled messages changes
Dropped ==
    UNCHANGED <<orders, cancel_saga, active_sagas, saga_obj, cancel_active_sagas,
                cancel_obj, tasks, published, record_writes, creation_writes, failures>>

\* C15: a saga event (payment.result, delivery.result, money.returned,
\* evt.fabrication_canceled, refund.result) whose key matches no saga in the registry
\* is dropped: no order or saga record changes, no saga instance changes, nothing is
\* published and no error is raised.
C15_UnknownSagaDropped ==
    [][/\ \A o \in Orders, st \in PaymentStatuses :
            (o \notin active_sagas /\ HandlePaymentResult(o, st)) => Dropped
       /\ \A o \in Orders, st \in DeliveryResults :
            (o \notin active_sagas /\ HandleDeliveryResult(o, st)) => Dropped
       /\ \A o \in Orders :
            (o \notin active_sagas /\ HandleMoneyReturned(o)) => Dropped
       /\ \A sid \in SagaIds :
            (sid \notin cancel_active_sagas /\ HandleEvtFabricationCanceled(sid))
                => Dropped
       /\ \A sid \in SagaIds, st \in RefundStatuses, r \in Reasons :
            (sid \notin cancel_active_sagas /\ HandleRefundResult(sid, st, r))
                => Dropped]_vars

\* the cancellation saga of order 1 has ended in Canceled, a saga event that came
\* afterwards found no saga in the registry, and every record is as the saga left it
C15_Witness ==
    /\ dropped >= 1
    /\ active_sagas = {} /\ cancel_active_sagas = {}
    /\ cancel_obj[1].state = "Canceled"
    /\ cancel_saga[1].state = "Canceled"
    /\ orders[1].fabrication_status = "Canceled"
    /\ orders[1].creation_status = "Confirmed"
    /\ record_writes[1] = <<"Canceling", "Refunding", "Canceled">>
    /\ published["cmd.cancel_fabrication"][1] = 1
    /\ published["cmd.refund"][1] = 1
    /\ failures = 0
    /\ delivered = MaxEvents
    /\ \A i \in Slots : tasks[i] = IdleTask

\* C16: once the sagas of an order have ended, delivering again an event that was
\* already consumed leaves the order record and the cancel_saga record unchanged:
\* for a saga event, and for a completed warehouse event consumed before (the
\* order.fabricated it caused has been published).
C16_ReplayLeavesRecords ==
    [][(active_sagas = {} /\ cancel_active_sagas = {})
          => /\ ((\E o \in Orders, st \in PaymentStatuses : HandlePaymentResult(o, st))
                   \/ (\E o \in Orders, st \in DeliveryResults : HandleDeliveryResult(o, st))
                   \/ (\E o \in Orders : HandleMoneyReturned(o))
                   \/ (\E sid \in SagaIds : HandleEvtFabricationCanceled(sid))
                   \/ (\E sid \in SagaIds, st \in RefundStatuses, r \in Reasons :
                          HandleRefundResult(sid, st, r)))
                  => UNCHANGED <<orders, cancel_saga>>
             /\ \A i \in Slots :
                  (WarehouseWriteStep(i) /\ tasks[i].new_status = "Completed"
                      /\ published["order.fabricated"][tasks[i].key] >= 1)
                  => UNCHANGED <<orders, cancel_saga>>]_vars

\* C17: start_saga for a key that already has an active saga is a no-op: the
\* registered instance and its state are kept and no start coroutine (hence no second
\* pay or cmd.cancel_fabrication) is scheduled.
C17_DoubleStartNoOp ==
    [][/\ (\E o \in Orders : StartSagaCall(o))
            => UNCHANGED <<saga_obj, active_sagas, tasks>>
       /\ (\E sid \in SagaIds : CancelStartSagaCall(sid))
            => UNCHANGED <<cancel_obj, cancel_active_sagas, tasks>>]_vars

\* C18: once the transition into Canceled or CancelPendingRefund has ended, whether
\* its entry effect succeeded or failed, the saga is no longer in the registry: a
\* registered saga in a terminal state is still inside that state's entry effect.
C18_TerminalUnregistered ==
    \A sid \in cancel_active_sagas :
        cancel_obj[sid].state \in FINAL_STATES
            => \E i \in Slots :
                  /\ tasks[i].kind = "cancel_evt"
                  /\ tasks[i].key = sid
                  /\ tasks[i].entering = cancel_obj[sid].state

\* C19: check.delivery is published for an order only after payment_accepted was
\* applied to its saga, and the warehouse command (order.created) only after
\* delivery_possible was applied in Paid; for an order whose payment was rejected
\* neither is ever published.
C19_CommandsFollowEvents ==
    \A o \in Orders :
        /\ published["check.delivery"][o] > 0
              => saga_obj[o].state \in {"Paid", "Confirmed", "NotDeliverable", "Returned"}
        /\ published["order.created"][o] > 0 => saga_obj[o].state = "Confirmed"
        /\ saga_obj[o].state = "NoMoney"
              => /\ published["check.delivery"][o] = 0
                 /\ published["order.created"][o] = 0

\* payment of order 1 was rejected, later saga events came and were dropped
C19_Witness ==
    /\ saga_obj[1].state = "NoMoney"
    /\ orders[1].creation_status = "NoMoney"
    /\ published["pay"][1] = 1
    /\ dropped >= 2
    /\ \A i \in Slots : tasks[i] = IdleTask

\* a coroutine is still inside the entry effect of NotDeliverable for order o
EnteringNotDeliverable(o) ==
    \E i \in Slots :
        /\ tasks[i].kind \in {"confirm_start", "confirm_evt"}
        /\ tasks[i].key = o
        /\ tasks[i].step = 0 \/ tasks[i].entering = "NotDeliverable"

C21_RefundAfterCancel ==
    /\ [](\A sid \in SagaIds :
            /\ published["cmd.refund"][sid] > 0
                  => cancel_obj[sid].state \in {"Refunding", "Canceled", "CancelPendingRefund"}
            /\ cancel_saga[sid].state = "Canceled" => cancel_obj[sid].state = "Canceled")
    /\ [](\A o \in Orders :
            orders[o].fabrication_status = "Canceled"
                => \E sid \in SagaIds : /\ cancel_obj[sid].order_id = o
                                        /\ cancel_obj[sid].state = "Canceled")
    /\ [][\A sid \in SagaIds :
            /\ (cancel_obj'[sid].state = "Refunding" /\ cancel_obj[sid].state # "Refunding")
                  => /\ cancel_obj[sid].state = "Canceling"
                     /\ HandleEvtFabricationCanceled(sid)
            /\ (cancel_obj'[sid].state = "Canceled" /\ cancel_obj[sid].state # "Canceled")
                  => /\ cancel_obj[sid].state = "Refunding"
                     /\ \E raw \in RefundStatuses, r \in Reasons :
                           /\ StripLower(raw) = "refunded"
                           /\ HandleRefundResult(sid, raw, r)]_vars

\* saga 1 went Canceling, Refunding, Canceled: cmd.refund was published and the
\* order and the record are Canceled
C21_Witness ==
    /\ cancel_obj[1].state = "Canceled"
    /\ published["cmd.refund"][1] = 1
    /\ orders[1].fabrication_status = "Canceled"
    /\ cancel_saga[1].state = "Canceled"

\* C22: when a refund.result whose status is not refunded is received by a saga in
\* Refunding, the saga moves to CancelPendingRefund keeping the event's reason; its
\* entry effect writes fabrication_status CancelPendingRefund and leaves the
\* cancel_saga record in state CancelPendingRefund with that reason in error; the
\* order of that saga never gets fabrication_status Canceled.
C22_RefundFailed ==
    /\ [](\A sid \in SagaIds :
            cancel_obj[sid].state = "CancelPendingRefund"
                => /\ orders[cancel_obj[sid].order_id].fabrication_status # "Canceled"
                   /\ cancel_saga[sid].state # "Canceled")
    /\ [][\A sid \in SagaIds :
            /\ \A raw \in RefundStatuses, r \in Reasons :
                  (/\ sid \in cancel_active_sagas
                   /\ cancel_obj[sid].state = "Refunding"
                   /\ StripLower(raw) # "refunded"
                   /\ HandleRefundResult(sid, raw, r))
                  => /\ cancel_obj'[sid].state = "CancelPendingRefund"
                     /\ cancel_obj'[sid].last_error = IF r = "None" THEN "unknown" ELSE r
            /\ \A i \in Slots :
                  (/\ tasks[i].kind = "cancel_evt"
                   /\ tasks[i].key = sid
                   /\ tasks[i].entering = "CancelPendingRefund"
                   /\ tasks[i].step = 1
                   /\ tasks'[i].step = 2)
                  => orders'[cancel_obj[sid].order_id].fabrication_status
                        = "CancelPendingRefund"
            /\ (/\ sid \in cancel_active_sagas
                /\ sid \notin cancel_active_sagas'
                /\ cancel_obj[sid].state = "CancelPendingRefund")
                  => /\ cancel_saga'[sid].state = "CancelPendingRefund"
                     /\ cancel_saga'[sid].error = cancel_obj[sid].last_error]_vars

\* saga 1 received a failed refund with reason gateway in Refunding and finished
C22_Witness ==
    /\ cancel_obj[1].state = "CancelPendingRefund"
    /\ 1 \notin cancel_active_sagas
    /\ orders[1].fabrication_status = "CancelPendingRefund"
    /\ cancel_saga[1].state = "CancelPendingRefund"
    /\ cancel_saga[1].error = "gateway"

\* C23: status normalization is idempotent on its outputs: for every input x,
\* empty and unknown ones included, normalize(normalize(x)) = normalize(x); each of
\* Completed, InProgress, Requested and Failed is mapped to itself.
C23_NormalizeIdempotent ==
    /\ fn.machine = "normalize"
          => _normalize_fabrication_status(fn.out) = fn.out
    /\ \A x \in {"Completed", "InProgress", "Requested", "Failed"} :
          _normalize_fabrication_status(x) = x

\* the padded upper-case " DONE " was normalized to Completed
C23_Witness ==
    /\ fn.machine = "normalize"
    /\ fn.raw = " DONE "
    /\ fn.out = "Completed"

\* the input lower-cased with '-' and spaces replaced by '_', as the rule is worded
LowerReplaced(raw) ==
    IF raw = "None" \/ raw = "" THEN << >>
    ELSE Replace(Replace(Lower(Chars(raw)), "-", "_"), " ", "_")

\* C24: the normalizer returns Completed exactly when the input, lower-cased and
\* with '-' and spaces replaced by '_', is one of completed, complete, done,
\* finished, fabricated; an empty, missing or unrecognised status yields
\* InProgress; the result is one of Requested, InProgress, Completed, Failed.
C24_CompletedExactly ==
    fn.machine = "normalize"
        => /\ fn.out = "Completed" <=> LowerReplaced(fn.raw) \in COMPLETED_WORDS
           /\ fn.raw \in {"None", ""} => fn.out = "InProgress"
           /\ (LowerReplaced(fn.raw) \notin
                  (COMPLETED_WORDS \cup IN_PROGRESS_WORDS \cup REQUESTED_WORDS
                      \cup FAILED_WORDS))
                 => fn.out = "InProgress"
           /\ fn.out \in {"Requested", "InProgress", "Completed", "Failed"}

\* C25: the overall status of an order is "Delivery:<delivery_status>" when
\* delivery_status is not NotStarted; otherwise "Manufacturing:<fabrication_status>"
\* when fabrication_status is not NotStarted; otherwise "Creation:<creation_status>";
\* fabrication Completed with delivery NotStarted gives Manufacturing:Completed.
C25_OverallStatus ==
    fn.machine = "overall"
        => /\ fn.order.delivery_status # "NotStarted"
                => fn.overall = "Delivery:" \o fn.order.delivery_status
           /\ (fn.order.delivery_status = "NotStarted"
                  /\ fn.order.fabrication_status # "NotStarted")
                => fn.overall = "Manufacturing:" \o fn.order.fabrication_status
           /\ (fn.order.delivery_status = "NotStarted"
                  /\ fn.order.fabrication_status = "NotStarted")
                => fn.overall = "Creation:" \o fn.order.creation_status
           /\ (fn.order.fabrication_status = "Completed"
                  /\ fn.order.delivery_status = "NotStarted")
                => fn.overall = "Manufacturing:Completed"

\* the rule was applied to fabrication Completed, delivery NotStarted
C25_Witness ==
    /\ fn.machine = "overall"
    /\ fn.order.creation_status = "Confirmed"
    /\ fn.order.fabrication_status = "Completed"
    /\ fn.order.delivery_status = "NotStarted"
    /\ fn.overall = "Manufacturing:Completed"

\* C26: create_order rejects an order with pieces_a + pieces_b = 0: no order
\* record exists and no confirmation saga was started for such an order.
C26_ZeroPiecesRejected ==
    \A o \in Orders :
        (orders[o].exists \/ saga_obj[o].created)
            => orders[o].pieces_a + orders[o].pieces_b >= 1

\* C27: for every order number_of_pieces = pieces_a + pieces_b, when it is created
\* and after every later operation on it.
C27_PiecesSum ==
    \A o \in Orders :
        orders[o].exists
            => orders[o].number_of_pieces = orders[o].pieces_a + orders[o].pieces_b

\* an order of one A and one B went through payment, the delivery check, fabrication
\* and a delivery event and still counts two pieces
C27_Witness ==
    /\ orders[1].exists
    /\ orders[1].pieces_a = 1
    /\ orders[1].pieces_b = 1
    /\ orders[1].number_of_pieces = 2
    /\ orders[1].creation_status = "Confirmed"
    /\ orders[1].fabrication_status = "Completed"
    /\ orders[1].delivery_status = "Ready"

\* C28: an order's delivery_status leaves NotStarted only once its
\* fabrication_status is Completed: a delivery event handled for an order whose
\* fabrication is not Completed does not change delivery_status, and
\* delivery_status stays in {NotStarted, Ready, Delivered, Failed}.
C28_DeliveryAfterFabrication ==
    /\ [](\A o \in Orders : orders[o].exists => orders[o].delivery_status \in DeliveryStatuses)
    /\ [][\A o \in Orders :
            (orders[o].exists /\ orders[o].fabrication_status # "Completed")
                => orders'[o].delivery_status = orders[o].delivery_status]_vars

\* C29: a message that is not valid JSON or lacks its correlation field is dropped:
\* the handler ends without raising, changes no order or saga state and publishes
\* nothing.
C29_MalformedDropped ==
    [][\A h \in Handlers, body \in MalformedBodies :
          HandleMalformed(h, body)
              => /\ raised' = raised
                 /\ UNCHANGED <<orders, cancel_saga, active_sagas, saga_obj,
                                cancel_active_sagas, cancel_obj, tasks, published>>]_vars

\* C30: a failure while publishing an audit record (getting the channel, declaring
\* the logs exchange or publishing) never propagates out of publish_to_logger: the
\* handler that logged ends without raising and its state update stands.
C30_LoggerFailureSwallowed ==
    [][\A o \in Orders, st \in DeliveryReadyStatuses,
          f \in {"get_channel", "declare_exchange_logs", "publish"} :
          HandleDeliveryReady(o, st, f)
              => /\ publish_to_logger(f) = "returned"
                 /\ raised' = raised
                 /\ orders[o].exists => orders'[o].delivery_status = st]_vars

\* an audit record of handle_delivery_ready was lost, the handler did not raise and
\* the delivery status it wrote is in the order
C30_Witness ==
    /\ logs_lost = 1
    /\ raised = 0
    /\ orders[1].exists
    /\ orders[1].delivery_status = "Delivered"

\* C31: for any sequence of evt.fabrication_canceled and refund.result deliveries
\* for one saga_id, duplicates included, cmd.cancel_fabrication and cmd.refund are
\* each published at most once for that saga.
C31_CommandsAtMostOnce ==
    \A sid \in SagaIds :
        /\ published["cmd.cancel_fabrication"][sid] <= 1
        /\ published["cmd.refund"][sid] <= 1

\* C36: for every started cancellation saga cmd.refund is never published before
\* cmd.cancel_fabrication was published for the same saga_id, also when
\* evt.fabrication_canceled is handled before the start task has run or while it
\* is suspended.
C36_CancelBeforeRefund ==
    \A sid \in SagaIds :
        published["cmd.refund"][sid] > 0 => published["cmd.cancel_fabrication"][sid] > 0

\* the calls of an entry effect that completed before its call number step
Completed(ops, step) == {ops[k] : k \in 1..(step - 1)}

\* task i makes its awaited publish call in this step
Publishes(i, ops) ==
    /\ tasks[i].step >= 1
    /\ ops[tasks[i].step].op = "publish"
    /\ tasks'[i] # tasks[i]
    /\ published' # published

\* C32: in every entry effect that persists and publishes, the writes are completed
\* before the command is published: cmd.cancel_fabrication is published after the
\* effect wrote fabrication_status Canceling and record state Canceling, cmd.refund
\* after it wrote record state Refunding, the warehouse command after it wrote
\* fabrication_status Requested; no write of the effect follows its publish.
C32_PersistBeforePublish ==
    [][\A i \in Slots :
         /\ (tasks[i].kind \in {"cancel_start", "cancel_evt"}
               /\ Publishes(i, CancelEnterOps(tasks[i].entering)))
            => LET ops == CancelEnterOps(tasks[i].entering)
                   op == ops[tasks[i].step]
                   done == Completed(ops, tasks[i].step)
               IN /\ tasks[i].step = Len(ops)
                  /\ op.arg = "cmd.cancel_fabrication" =>
                        /\ [op |-> "update_order_fabrication_status", arg |-> "Canceling"] \in done
                        /\ [op |-> "update_cancel_saga", arg |-> "Canceling"] \in done
                  /\ op.arg = "cmd.refund" =>
                        [op |-> "update_cancel_saga", arg |-> "Refunding"] \in done
         /\ (tasks[i].kind \in {"confirm_start", "confirm_evt"}
               /\ Publishes(i, ConfirmTaskOps(tasks[i]))
               /\ tasks[i].entering = "Confirmed")
            => LET ops == ConfirmTaskOps(tasks[i])
                   done == Completed(ops, tasks[i].step)
               IN /\ tasks[i].step = Len(ops)
                  /\ [op |-> "update_order_fabrication_status", arg |-> "Requested"] \in done]_vars

\* the three commands were published for order 1 and its cancellation saga
C32_Witness ==
    /\ published["order.created"][1] = 1
    /\ published["cmd.cancel_fabrication"][1] = 1
    /\ published["cmd.refund"][1] = 1
    /\ cancel_saga[1].state = "Refunding"

\* the internal event the specification assigns to each status the model draws,
\* "None" where the status is neither of the two the topic carries
PaymentEventOf(st) ==
    CASE st \in {"paid", "Paid"} -> "payment_accepted"
      [] st \in {"not_paid", " NOT_PAID "} -> "payment_rejected"
      [] OTHER -> "None"

DeliveryEventOf(st) ==
    CASE st \in {"deliverable", " Deliverable "} -> "delivery_possible"
      [] st = "not_deliverable" -> "delivery_not_possible"
      [] OTHER -> "None"

\* the saga of order o takes the transition of event type and nothing else is applied
AppliesEvent(o, type) ==
    /\ saga_obj'[o].state = ConfirmOnEvent(saga_obj[o].state, type)
    /\ saga_obj'[o].state # saga_obj[o].state
          => \E i \in Slots : /\ tasks[i].kind = "idle"
                              /\ tasks'[i].kind = "confirm_evt"
                              /\ tasks'[i].entering = saga_obj'[o].state

\* C33: for a registered saga, payment.result with status paid is applied as
\* payment_accepted and not_paid as payment_rejected, delivery.result with status
\* deliverable as delivery_possible and not_deliverable as delivery_not_possible,
\* the status compared trimmed and case-insensitively; any other status is dropped
\* and no event is applied to the saga.
C33_IngressTranslation ==
    [][\A o \in Orders :
         /\ \A st \in PaymentStatuses :
              HandlePaymentResult(o, st) =>
                 IF PaymentEventOf(st) = "None"
                 THEN UNCHANGED <<saga_obj, tasks, orders, published, active_sagas>>
                 ELSE o \in active_sagas => AppliesEvent(o, PaymentEventOf(st))
         /\ \A st \in DeliveryResults :
              HandleDeliveryResult(o, st) =>
                 IF DeliveryEventOf(st) = "None"
                 THEN UNCHANGED <<saga_obj, tasks, orders, published, active_sagas>>
                 ELSE o \in active_sagas => AppliesEvent(o, DeliveryEventOf(st))]_vars

\* the saga of order 1 went Pending -> Paid -> NotDeliverable on translated events
C33_Witness ==
    /\ saga_obj[1].state = "NotDeliverable"
    /\ creation_writes[1] = <<"Pending", "Paid", "NotDeliverable">>

\* C34: each of update_order_creation_status, update_order_fabrication_status and
\* update_order_delivery_status sets exactly one of the three phase fields of the
\* addressed order and leaves the other two phase fields, the piece counts and
\* every other order unchanged; for an id that is not stored it returns not-found
\* and changes nothing.
C34_UpdateFrame ==
    fn.machine = "crud" =>
        LET b == fn.before[fn.id]
            a == fn.tbl[fn.id]
        IN
        IF b.exists
        THEN /\ fn.ret = "row"
             /\ a.exists
             /\ a.creation_status =
                   IF fn.call = "update_order_creation_status" THEN fn.arg
                   ELSE b.creation_status
             /\ a.fabrication_status =
                   IF fn.call = "update_order_fabrication_status" THEN fn.arg
                   ELSE b.fabrication_status
             /\ a.delivery_status =
                   IF fn.call = "update_order_delivery_status" THEN fn.arg
                   ELSE b.delivery_status
             /\ a.pieces_a = b.pieces_a
             /\ a.pieces_b = b.pieces_b
             /\ a.number_of_pieces = b.number_of_pieces
             /\ \A k \in CrudIds \ {fn.id} : fn.tbl[k] = fn.before[k]
        ELSE /\ fn.ret = "None"
             /\ fn.tbl = fn.before

\* order 2 had its delivery status set after other updates while order 1 was touched
C34_Witness ==
    /\ fn.machine = "crud"
    /\ fn.call = "update_order_delivery_status"
    /\ fn.id = 2
    /\ fn.tbl[2].delivery_status = "Ready"
    /\ fn.tbl[2].creation_status = "Paid"
    /\ fn.tbl[1].fabrication_status = "Completed"
    /\ ~fn.tbl[3].exists

\* what a legacy payment event leaves alone: no event is applied to a saga, the
\* registries, fabrication_status and delivery_status are unchanged and no command
\* is published
LegacyFrame(o) ==
    /\ UNCHANGED <<saga_obj, active_sagas, cancel_obj, cancel_active_sagas, cancel_saga,
                   tasks, published>>
    /\ orders'[o].fabrication_status = orders[o].fabrication_status
    /\ orders'[o].delivery_status = orders[o].delivery_status

\* C35: handling a legacy payment.paid or payment.failed event updates the
\* creation_status of the order and only that: no event is applied to the
\* confirmation saga, the saga registry, fabrication_status and delivery_status
\* are unchanged and no command is published to Payment, Delivery or Warehouse.
C35_LegacyPaymentOnlyCreation ==
    [][\A o \in Orders :
         /\ HandlePaymentPaid(o) =>
               /\ LegacyFrame(o)
               /\ orders[o].exists => orders'[o].creation_status = "Paid"
         /\ \A st \in PaymentFailedStatuses, f \in LoggerFailures :
               HandlePaymentFailed(o, st, f) =>
                  /\ LegacyFrame(o)
                  /\ orders[o].exists =>
                        /\ orders'[o].creation_status = st
                        /\ f = "none" => raised' = raised]_vars

\* the part of C35 that holds: neither legacy handler touches a saga, the other
\* phase fields or the bus, and payment.paid sets creation_status to Paid
C35_FramePart ==
    [][\A o \in Orders :
         /\ HandlePaymentPaid(o) =>
               /\ LegacyFrame(o)
               /\ orders[o].exists => orders'[o].creation_status = "Paid"
         /\ \A st \in PaymentFailedStatuses, f \in LoggerFailures :
               HandlePaymentFailed(o, st, f) => LegacyFrame(o)]_vars

\* no coroutine of cancellation saga sid is running or waiting to run
NoEntryEffectInProgress(sid) ==
    \A i \in Slots :
        ~(tasks[i].kind \in {"cancel_start", "cancel_evt"} /\ tasks[i].key = sid)

\* C37: for a cancellation saga whose record was created with state Canceling,
\* whenever no entry effect of that saga is in progress the state of the
\* cancel_saga record equals the state of the in-memory saga.
C37_RecordMatchesSaga ==
    \A sid \in SagaIds :
        (cancel_saga[sid].exists /\ cancel_obj[sid].created /\ NoEntryEffectInProgress(sid))
            => cancel_saga[sid].state = cancel_obj[sid].state

\* the refund.result has just been applied to saga sid: its coroutine for the
\* final state is about to run the entry effect
RefundResultApplied(sid) ==
    /\ cancel_obj[sid].state \in FINAL_STATES
    /\ \E i \in Slots : /\ tasks[i].kind = "cancel_evt"
                        /\ tasks[i].key = sid
                        /\ tasks[i].entering = cancel_obj[sid].state
                        /\ tasks[i].step = 1

\* C38: under weak fairness of task scheduling and with no persistence or bus
\* failure, a registered cancellation saga that was delivered
\* evt.fabrication_canceled and is then delivered a refund.result reaches Canceled
\* or CancelPendingRefund; that value is eventually written to the order's
\* fabrication_status and to the saga record, and the saga is eventually removed
\* from the registry.
C38_CancelTerminates ==
    /\ [][\A sid \in SagaIds, st \in RefundStatuses, r \in Reasons :
            (/\ sid \in cancel_active_sagas
             /\ cancel_obj[sid].state = "Refunding"
             /\ HandleRefundResult(sid, st, r))
                => RefundResultApplied(sid)']_vars
    /\ \A sid \in SagaIds :
          /\ RefundResultApplied(sid)
                ~> (/\ cancel_obj[sid].created
                    /\ orders[cancel_obj[sid].order_id].fabrication_status
                          = cancel_obj[sid].state)
          /\ RefundResultApplied(sid) ~> (cancel_saga[sid].state = cancel_obj[sid].state)
          /\ RefundResultApplied(sid) ~> (sid \notin cancel_active_sagas)

\* the saga ended CancelPendingRefund: order and record carry it, registry is empty
C38_Witness ==
    /\ cancel_obj[1].state = "CancelPendingRefund"
    /\ orders[1].fabrication_status = "CancelPendingRefund"
    /\ cancel_saga[1].state = "CancelPendingRefund"
    /\ 1 \notin cancel_active_sagas
    /\ published["cmd.refund"][1] >= 1

====
